---- MODULE Spec2Model ----
(***************************************************************************)
(* TiFS: a POSIX-style filesystem kept in a transactional key-value store. *)
(*                                                                         *)
(* The store is modelled as five maps, one per key scope of ScopedKey      *)
(* (META, INODE, BLOCK, HANDLER, INDEX).  Every method of Txn              *)
(* (fs/transaction.rs) is an operator from a store view to a result        *)
(* record [ok, err, db, val]; every method of TiFs (fs/tikv_fs.rs) is an   *)
(* operator built from them, run by with_pessimistic, which commits the    *)
(* view on Ok and drops it on Err.                                         *)
(***************************************************************************)
EXTENDS Integers, Sequences, FiniteSets, TLC

VARIABLES
    store,      \* the committed key-value store
    hub,        \* TiFs.hub: the in-memory FileHub (ino -> Slab<FileHandler>)
    mounted,    \* TRUE once the kernel's init request has been served
    debug,      \* TRUE when the build has debug assertions (debug_assert!) enabled
    last,       \* the last request served and its reply
    hist,       \* what each specification records of the past: handles open at an
                \* unlink, byte positions written, locks granted and released
    tasks,      \* in-flight requests; in Spec and SpecTxn what the last request found
    nops        \* number of requests served so far

vars == <<store, hub, mounted, debug, last, hist, tasks, nops>>

----------------------------------------------------------------------------
(* Bounds of the model *)

\* inode ids are handed out up to this value
MaxIno == 4
\* slots of one Slab of the FileHub, and handles opened through Txn::open
MaxFh == 2
\* requests served in one behaviour of the namespace specification
MaxOps == 4
\* block size the filesystem is mounted with (mount option blksize)
BlockSize == 16
\* data-path requests in one behaviour of the data specification
MaxDataOps == 3
\* pieces of the option string of the option specification
MaxOptLen == 4
\* lock owners of the lock specification
MaxOwners == 3
\* concurrent creators of the create specification
MaxCreators == 3
\* number of blocks the maxsize mount option allows (max_size / block_size)
MaxBlocks == 1
\* requests of the mount specification, each from a mount or a debugger console
MaxMounts == 2

(* Program constants *)
ROOT_INODE == 1
INLINE_DATA_THRESHOLD_BASE == 16

Names == {"a", "b"}
\* TiFs::MAX_NAME_LEN, and a name of MAX_NAME_LEN + 1 bytes
MAX_NAME_LEN == 256
LongName ==
    LET n4 == "nnnn"
        n16 == n4 \o n4 \o n4 \o n4
        n64 == n16 \o n16 \o n16 \o n16
    IN n64 \o n64 \o n64 \o n64 \o "n"

F_RDLCK == "F_RDLCK"
F_WRLCK == "F_WRLCK"
F_UNLCK == "F_UNLCK"

----------------------------------------------------------------------------
(* Generic helpers *)

Max(a, b) == IF a >= b THEN a ELSE b
Min(a, b) == IF a <= b THEN a ELSE b

Put(f, k, v) == [x \in (DOMAIN f) \cup {k} |-> IF x = k THEN v ELSE f[x]]
Del(f, k) == [x \in (DOMAIN f) \ {k} |-> f[x]]
EmptyMap == [x \in {} |-> 0]

Zeros(n) == [i \in 1..n |-> 0]
\* Vec::resize(n, 0)
resize(s, n) == IF n <= Len(s) THEN SubSeq(s, 1, n) ELSE s \o Zeros(n - Len(s))
\* dst[at .. at+len(src)].copy_from_slice(src), at counted from 0
copy_from_slice(dst, at, src) ==
    [i \in 1..Len(dst) |-> IF i > at /\ i <= at + Len(src) THEN src[i - at] ELSE dst[i]]

Ok(db, v) == [ok |-> TRUE, err |-> "Ok", db |-> db, val |-> v]
Err(e) == [ok |-> FALSE, err |-> e]

----------------------------------------------------------------------------
(* Entities *)

NoStat == [some |-> FALSE, bavail |-> 0]
Meta_new(block_size) == [some |-> TRUE, inode_next |-> ROOT_INODE,
                         block_size |-> block_size, last_stat |-> NoStat]
NoMeta == [some |-> FALSE, inode_next |-> 0, block_size |-> 0, last_stat |-> NoStat]

NoInline == [some |-> FALSE, data |-> <<>>]
SomeInline(d) == [some |-> TRUE, data |-> d]

\* impl From<FileAttr> for Inode, applied to the FileAttr make_inode builds
Inode_from(ino, kind) ==
    [ino |-> ino, kind |-> kind, size |-> 0, blocks |-> 0, nlink |-> 1,
     owner_set |-> {}, lk_type |-> F_UNLCK,
     inline_data |-> NoInline, next_fh |-> 0, opened_fh |-> 0]

update_blocks(inode, block_size) ==
    [inode EXCEPT !.blocks = (inode.size + block_size - 1) \div block_size]
set_size(inode, size, block_size) ==
    update_blocks([inode EXCEPT !.size = size], block_size)

DirItem(ino, name, typ) == [ino |-> ino, name |-> name, typ |-> typ]
DirBlock(items) == [isdir |-> TRUE, items |-> items, bytes |-> <<>>]
DataBlock(bytes) == [isdir |-> FALSE, items |-> <<>>, bytes |-> bytes]
\* length of the encoded Directory (dir::encode): one unit per DirItem
encoded_len(dir) == Len(dir)

EmptyStore == [meta |-> NoMeta, inode |-> EmptyMap, block |-> EmptyMap,
               handler |-> EmptyMap, index |-> EmptyMap]

DirNames(dir) == {dir[i].name : i \in 1..Len(dir)}
DirFind(dir, name) == dir[CHOOSE i \in 1..Len(dir) : dir[i].name = name]
DirWithout(dir, name) == SelectSeq(dir, LAMBDA it : it.name /= name)

----------------------------------------------------------------------------
(* Txn: meta, inodes, index, directories (fs/transaction.rs) *)

inline_data_threshold == BlockSize \div INLINE_DATA_THRESHOLD_BASE

\* a space check that never refuses
check_space_left_always_ok(meta) == TRUE

\* TRUE when check_space_left returns Ok
check_space_left(meta) == ~(meta.last_stat.some /\ meta.last_stat.bavail = 0)

read_meta(db) == db.meta
save_meta(db, meta) == [db EXCEPT !.meta = meta]

read_inode(db, ino) ==
    IF ino \in DOMAIN db.inode THEN Ok(db, db.inode[ino]) ELSE Err("InodeNotFound")

\* save_inode without the removal of an inode that has no name and no handle
save_inode_always_put(db, inode) ==
    [db EXCEPT !.inode = Put(db.inode, inode.ino, inode)]

save_inode(db, inode) ==
    IF inode.nlink = 0 /\ inode.opened_fh = 0
    THEN [db EXCEPT !.inode = Del(db.inode, inode.ino)]
    ELSE [db EXCEPT !.inode = Put(db.inode, inode.ino, inode)]

remove_inode(db, ino) == [db EXCEPT !.inode = Del(db.inode, ino)]

get_index(db, parent, name) ==
    IF <<parent, name>> \in DOMAIN db.index
    THEN [some |-> TRUE, ino |-> db.index[<<parent, name>>]]
    ELSE [some |-> FALSE, ino |-> 0]
set_index(db, parent, name, ino) ==
    [db EXCEPT !.index = Put(db.index, <<parent, name>>, ino)]
remove_index(db, parent, name) ==
    [db EXCEPT !.index = Del(db.index, <<parent, name>>)]

read_dir(db, ino) ==
    IF <<ino, 0>> \notin DOMAIN db.block THEN Err("BlockNotFound")
    ELSE IF ~db.block[<<ino, 0>>].isdir THEN Err("Serialize")
    ELSE Ok(db, db.block[<<ino, 0>>].items)

save_dir(db, ino, dir) ==
    LET ri == read_inode(db, ino) IN
    IF ~ri.ok THEN ri
    ELSE LET inode == set_size(ri.val, encoded_len(dir), BlockSize)
             db1 == save_inode(db, inode)
         IN Ok([db1 EXCEPT !.block = Put(db1.block, <<ino, 0>>, DirBlock(dir))], inode)

\* make_inode that hands out Meta.inode_next without advancing it
make_inode_keeps_next(db, parent, name, kind) ==
    LET meta == IF read_meta(db).some THEN read_meta(db) ELSE Meta_new(BlockSize) IN
    IF ~check_space_left(meta) THEN Err("NoSpaceLeft")
    ELSE
    LET ino == meta.inode_next
        db1 == save_meta(db, meta)
        inode == Inode_from(ino, kind)
    IN
    IF parent >= ROOT_INODE
    THEN IF get_index(db1, parent, name).some THEN Err("FileExist")
         ELSE LET db2 == set_index(db1, parent, name, ino)
                  rd == read_dir(db2, parent)
              IN IF ~rd.ok THEN rd
                 ELSE LET sd == save_dir(db2, parent, Append(rd.val, DirItem(ino, name, kind)))
                      IN IF ~sd.ok THEN sd
                         ELSE Ok(save_inode(sd.db, inode), inode)
    ELSE Ok(save_inode(db1, inode), inode)

make_inode(db, parent, name, kind) ==
    LET meta == IF read_meta(db).some THEN read_meta(db) ELSE Meta_new(BlockSize) IN
    IF ~check_space_left(meta) THEN Err("NoSpaceLeft")
    ELSE
    LET ino == meta.inode_next
        db1 == save_meta(db, [meta EXCEPT !.inode_next = ino + 1])
        inode == Inode_from(ino, kind)
    IN
    IF parent >= ROOT_INODE
    THEN IF get_index(db1, parent, name).some THEN Err("FileExist")
         ELSE LET db2 == set_index(db1, parent, name, ino)
                  rd == read_dir(db2, parent)
              IN IF ~rd.ok THEN rd
                 ELSE LET sd == save_dir(db2, parent, Append(rd.val, DirItem(ino, name, kind)))
                      IN IF ~sd.ok THEN sd
                         ELSE Ok(save_inode(sd.db, inode), inode)
    ELSE Ok(save_inode(db1, inode), inode)

mkdir(db, parent, name) ==
    LET mi == make_inode(db, parent, name, "Directory") IN
    IF ~mi.ok THEN mi
    ELSE save_dir(save_inode(mi.db, mi.val), mi.val.ino, <<>>)

lookup(db, parent, name) ==
    IF get_index(db, parent, name).some
    THEN Ok(db, get_index(db, parent, name).ino) ELSE Err("FileNotFound")

rmdir(db, parent, name) ==
    LET idx == get_index(db, parent, name) IN
    IF ~idx.some THEN Err("FileNotFound")
    ELSE LET td == read_dir(db, idx.ino) IN
    IF ~td.ok THEN td
    ELSE IF Len(td.val) /= 0 THEN Err("DirNotEmpty")
    ELSE LET db1 == remove_inode(remove_index(db, parent, name), idx.ino)
             pd == read_dir(db1, parent)
         IN IF ~pd.ok THEN pd
            ELSE LET sd == save_dir(db1, parent, DirWithout(pd.val, name))
                 IN IF ~sd.ok THEN sd ELSE Ok(sd.db, 0)

unlink(db, parent, name) ==
    LET idx == get_index(db, parent, name) IN
    IF ~idx.some THEN Err("FileNotFound")
    ELSE LET db1 == remove_index(db, parent, name)
             pd == read_dir(db1, parent)
         IN
    IF ~pd.ok THEN pd
    ELSE LET sd == save_dir(db1, parent, DirWithout(pd.val, name)) IN
    IF ~sd.ok THEN sd
    ELSE LET ri == read_inode(sd.db, idx.ino) IN
    IF ~ri.ok THEN ri
    ELSE IF ri.val.nlink = 0 THEN Err("Overflow")
    ELSE Ok(save_inode(sd.db, [ri.val EXCEPT !.nlink = @ - 1]), 0)

link(db, ino, newparent, newname) ==
    LET idx == get_index(db, newparent, newname)
        old == IF idx.some THEN read_inode(db, idx.ino) ELSE Err("-")
        rm == IF ~idx.some THEN Ok(db, 0)
              ELSE IF ~old.ok THEN old
              ELSE IF old.val.kind = "Directory" THEN rmdir(db, newparent, newname)
              ELSE unlink(db, newparent, newname)
    IN
    IF ~rm.ok THEN rm
    ELSE LET db1 == set_index(rm.db, newparent, newname, ino)
             ri == read_inode(db1, ino)
         IN
    IF ~ri.ok THEN ri
    ELSE LET rd == read_dir(db1, newparent) IN
    IF ~rd.ok THEN rd
    ELSE LET sd == save_dir(db1, newparent,
                            Append(rd.val, DirItem(ino, newname, ri.val.kind)))
         IN
    IF ~sd.ok THEN sd
    ELSE LET inode == [ri.val EXCEPT !.nlink = @ + 1]
         IN Ok(save_inode(sd.db, inode), inode)

\* Txn::begin_optimistic of a mount with maxsize configured: max_size / block_size
max_blocks == (MaxBlocks * BlockSize) \div BlockSize

\* the sum of `blocks` over the stored inodes with ids in S
RECURSIVE SumBlocks(_, _)
SumBlocks(db, S) ==
    IF S = {} THEN 0
    ELSE LET i == CHOOSE x \in S : TRUE
         IN db.inode[i].blocks + SumBlocks(db, S \ {i})

\* Txn::statfs: counts the used blocks and caches the result in Meta.last_stat
statfs(db) ==
    IF ~read_meta(db).some THEN Err("Panic")
    ELSE
    LET meta == read_meta(db)
        used_blocks == SumBlocks(db, {i \in DOMAIN db.inode :
                                        i >= ROOT_INODE /\ i < meta.inode_next})
        bfree == IF max_blocks > used_blocks THEN max_blocks - used_blocks ELSE 0
        stat == [some |-> TRUE, bavail |-> bfree]
    IN Ok(save_meta(db, [meta EXCEPT !.last_stat = stat]), stat)

\* std::u64::MAX, scaled to the largest integer of the model: statfs only
\* subtracts a count of the model from it, which never wraps
U64_MAX == 2147483647

\* StatFs::new with the fields statfs computes (bsize, namelen, frsize are fixed)
StatFs_new(blocks, bfree, bavail, files, ffree) ==
    [some |-> TRUE, blocks |-> blocks, bfree |-> bfree, bavail |-> bavail,
     files |-> files, ffree |-> ffree]

\* Txn::statfs of a transaction begun with max_blocks mb ([some, v]): every field
\* of the StatFs it returns and caches in Meta.last_stat
Txn_statfs(db, mb) ==
    IF ~read_meta(db).some THEN Err("Panic")
    ELSE
    LET meta == read_meta(db)
        next_inode == meta.inode_next
        scanned == {i \in DOMAIN db.inode : i >= ROOT_INODE /\ i < next_inode}
        used_blocks == SumBlocks(db, scanned)
        files == Cardinality(scanned)
        ffree == U64_MAX - next_inode
        bfree == IF mb.some /\ mb.v > used_blocks THEN mb.v - used_blocks
                 ELSE IF mb.some THEN 0
                 ELSE U64_MAX
        blocks == IF mb.some THEN mb.v ELSE used_blocks
        stat == StatFs_new(blocks, bfree, bfree, files, ffree)
    IN Ok(save_meta(db, [meta EXCEPT !.last_stat = stat]), stat)

----------------------------------------------------------------------------
(* Txn: persistent file handles (fs/transaction.rs) *)

read_fh(db, ino, fh) ==
    IF <<ino, fh>> \in DOMAIN db.handler
    THEN Ok(db, db.handler[<<ino, fh>>]) ELSE Err("FhNotFound")
save_fh(db, ino, fh, handler) ==
    [db EXCEPT !.handler = Put(db.handler, <<ino, fh>>, handler)]

\* FileHandler::default()
FileHandler_default == [cursor |-> 0]

open(db, ino) ==
    LET ri == read_inode(db, ino) IN
    IF ~ri.ok THEN ri
    ELSE LET fh == ri.val.next_fh
             db1 == save_fh(db, ino, fh, FileHandler_default)
             inode == [ri.val EXCEPT !.next_fh = @ + 1, !.opened_fh = @ + 1]
         IN Ok(save_inode(db1, inode), fh)

close(db, ino, fh) ==
    LET rf == read_fh(db, ino, fh) IN
    IF ~rf.ok THEN rf
    ELSE LET db1 == [db EXCEPT !.handler = Del(db.handler, <<ino, fh>>)]
             ri == read_inode(db1, ino)
         IN
    IF ~ri.ok THEN ri
    ELSE IF ri.val.opened_fh = 0 THEN Err("Overflow")
    ELSE Ok(save_inode(db1, [ri.val EXCEPT !.opened_fh = @ - 1]), 0)


----------------------------------------------------------------------------
(* Txn: the data path (fs/transaction.rs) *)

empty_block(block_size) == Zeros(block_size)

\* the bytes of BLOCK(ino, b), or None
get_block(db, ino, b) ==
    IF <<ino, b>> \in DOMAIN db.block
    THEN [some |-> TRUE, bytes |-> db.block[<<ino, b>>].bytes]
    ELSE [some |-> FALSE, bytes |-> <<>>]
put_block(db, ino, b, bytes) ==
    [db EXCEPT !.block = Put(db.block, <<ino, b>>, DataBlock(bytes))]

\* returns the changed inode in val; the caller goes on with it
transfer_inline_data_to_block(db, inode) ==
    IF debug /\ ~(inode.size <= inline_data_threshold) THEN Err("Panic")
    ELSE IF ~inode.inline_data.some THEN Err("Panic")
    ELSE Ok(put_block(db, inode.ino, 0, resize(inode.inline_data.data, BlockSize)),
            [inode EXCEPT !.inline_data = NoInline])

\* returns <<bytes written, the changed inode>> in val
write_inline_data(db, inode, start, data) ==
    IF debug /\ ~(inode.size <= inline_data_threshold) THEN Err("Panic")
    ELSE IF debug /\ ~(start + Len(data) <= inline_data_threshold) THEN Err("Panic")
    ELSE
    LET size == Len(data)
        taken == IF inode.inline_data.some THEN inode.inline_data.data ELSE <<>>
        grown == IF start + size > Len(taken) THEN resize(taken, start + size) ELSE taken
        inlined == copy_from_slice(grown, start, data)
        inode1 == [set_size(inode, Len(inlined), BlockSize)
                      EXCEPT !.inline_data = SomeInline(inlined)]
    IN Ok(save_inode(db, inode1), <<size, inode1>>)

read_inline_data(db, inode, start, size) ==
    IF debug /\ ~(inode.size <= inline_data_threshold) THEN Err("Panic")
    ELSE IF ~inode.inline_data.some THEN Err("Panic")
    ELSE IF debug /\ ~(inode.size = Len(inode.inline_data.data)) THEN Err("Panic")
    ELSE
    LET inlined == inode.inline_data.data
        to_copy == IF Len(inlined) > start THEN Min(size, Len(inlined) - start) ELSE 0
        data == copy_from_slice(Zeros(size), 0, SubSeq(inlined, start + 1, start + to_copy))
    IN Ok(save_inode(db, inode), data)

\* The flat_map of read_data over the scanned pairs: the i-th pair found, of block
\* index b, yields the empty blocks of (start_block + i .. b) and then its value.
RECURSIVE scan_blocks(_, _, _, _, _, _)
scan_blocks(db, ino, b, end_block, start_block, i) ==
    IF b >= end_block THEN <<>>
    ELSE IF get_block(db, ino, b).some
    THEN Zeros(BlockSize * Max(0, b - (start_block + i)))
            \o get_block(db, ino, b).bytes
            \o scan_blocks(db, ino, b + 1, end_block, start_block, i + 1)
    ELSE scan_blocks(db, ino, b + 1, end_block, start_block, i)

\* read_data that does not cut the requested size at the end of the file
read_data_past_end(db, ino, start, chunk_size) ==
    LET ri == read_inode(db, ino) IN
    IF ~ri.ok THEN ri
    ELSE LET attr == ri.val IN
    IF start >= attr.size THEN Ok(db, <<>>)
    ELSE
    LET max_size == attr.size - start
        size == IF chunk_size.some THEN chunk_size.size ELSE max_size
    IN
    IF attr.inline_data.some THEN read_inline_data(db, attr, start, size)
    ELSE
    LET target == start + size
        start_block == start \div BlockSize
        end_block == (target + BlockSize - 1) \div BlockSize
        stitched == scan_blocks(db, ino, start_block, end_block, start_block, 0)
        skip == start % BlockSize
        data == IF Len(stitched) = 0 THEN <<>>
                ELSE SubSeq(stitched, skip + 1, Len(stitched))
    IN Ok(save_inode(db, attr), resize(data, size))

\* chunk_size: [some, size]
read_data(db, ino, start, chunk_size) ==
    LET ri == read_inode(db, ino) IN
    IF ~ri.ok THEN ri
    ELSE LET attr == ri.val IN
    IF start >= attr.size THEN Ok(db, <<>>)
    ELSE
    LET max_size == attr.size - start
        size == Min(IF chunk_size.some THEN chunk_size.size ELSE max_size, max_size)
    IN
    IF attr.inline_data.some THEN read_inline_data(db, attr, start, size)
    ELSE
    LET target == start + size
        start_block == start \div BlockSize
        end_block == (target + BlockSize - 1) \div BlockSize
        stitched == scan_blocks(db, ino, start_block, end_block, start_block, 0)
        skip == start % BlockSize
        data == IF Len(stitched) = 0 THEN <<>>
                ELSE SubSeq(stitched, skip + 1, Len(stitched))
    IN Ok(save_inode(db, attr), resize(data, size))

clear_data(db, ino) ==
    LET ri == read_inode(db, ino) IN
    IF ~ri.ok THEN ri
    ELSE
    LET attr == ri.val
        end_block == (attr.size + BlockSize - 1) \div BlockSize
        db1 == [db EXCEPT !.block =
                   [k \in {x \in DOMAIN db.block : ~(x[1] = ino /\ x[2] < end_block)}
                       |-> db.block[k]]]
    IN Ok(save_inode(db1, [attr EXCEPT !.size = 0]), attr.size)

\* the loop of write_data over the blocks after the first
RECURSIVE write_rest(_, _, _, _)
write_rest(db, ino, block_index, rest) ==
    IF Len(rest) = 0 THEN db
    ELSE
    LET n == Min(BlockSize, Len(rest))
        current_block == SubSeq(rest, 1, n)
        old == get_block(db, ino, block_index + 1)
        last_value == IF old.some THEN old.bytes ELSE empty_block(BlockSize)
        value == IF n < BlockSize THEN copy_from_slice(last_value, 0, current_block)
                 ELSE current_block
    IN write_rest(put_block(db, ino, block_index + 1, value), ino, block_index + 1,
                  SubSeq(rest, n + 1, Len(rest)))

write_data(db, ino, start, data) ==
    IF ~read_meta(db).some THEN Err("Panic")
    ELSE IF ~check_space_left(read_meta(db)) THEN Err("NoSpaceLeft")
    ELSE LET ri == read_inode(db, ino) IN
    IF ~ri.ok THEN ri
    ELSE
    LET size == Len(data)
        target == start + size
        tr == IF ri.val.inline_data.some /\ target > BlockSize
              THEN transfer_inline_data_to_block(db, ri.val)
              ELSE Ok(db, ri.val)
    IN
    IF ~tr.ok THEN tr
    ELSE
    LET inode == tr.val
        db1 == tr.db
    IN
    IF (inode.inline_data.some \/ inode.size = 0) /\ target <= BlockSize
    THEN LET w == write_inline_data(db1, inode, start, data)
         IN IF ~w.ok THEN w ELSE Ok(w.db, w.val[1])
    ELSE
    LET block_index == start \div BlockSize
        start_index == start % BlockSize
        first_block_size == BlockSize - start_index
        n == Min(first_block_size, size)
        first_block == SubSeq(data, 1, n)
        rest == SubSeq(data, n + 1, size)
        old == get_block(db1, ino, block_index)
        start_value == copy_from_slice(
                          IF old.some THEN old.bytes ELSE empty_block(BlockSize),
                          start_index, first_block)
        db2 == put_block(db1, ino, block_index, start_value)
        db3 == write_rest(db2, ino, block_index, rest)
        inode1 == set_size(inode, Max(inode.size, target), BlockSize)
    IN Ok(save_inode(db3, inode1), size)

fallocate(db, inode, offset, length) ==
    LET target_size == offset + length IN
    IF target_size <= inode.size THEN Ok(db, 0)
    ELSE IF inode.inline_data.some /\ target_size <= inline_data_threshold
    THEN LET w == write_inline_data(db, inode, inode.size,
                                    Zeros(target_size - inode.size))
         IN IF ~w.ok THEN w ELSE Ok(w.db, 0)
    ELSE
    LET tr == IF inode.inline_data.some
              THEN transfer_inline_data_to_block(db, inode) ELSE Ok(db, inode)
    IN IF ~tr.ok THEN tr
       ELSE Ok(save_inode(tr.db, set_size(tr.val, target_size, BlockSize)), 0)

\* Txn::read and Txn::write: the position is the stored handle's cursor plus offset
read(db, ino, fh, offset, size) ==
    LET rf == read_fh(db, ino, fh) IN
    IF ~rf.ok THEN rf
    ELSE IF rf.val.cursor + offset < 0 THEN Err("InvalidOffset")
    ELSE read_data(db, ino, rf.val.cursor + offset, [some |-> TRUE, size |-> size])

write(db, ino, fh, offset, data) ==
    LET rf == read_fh(db, ino, fh) IN
    IF ~rf.ok THEN rf
    ELSE IF rf.val.cursor + offset < 0 THEN Err("InvalidOffset")
    ELSE write_data(db, ino, rf.val.cursor + offset, data)


----------------------------------------------------------------------------
(* FileHub: the in-memory handle table of one mount (fs/file_handler.rs) *)

\* a Slab: entries are Occupied(handler) or Vacant(next free key); keys count from 0
Slab_new == [entries |-> <<>>, next |-> 0]
Occupied(h) == [occ |-> TRUE, cursor |-> h.cursor, next |-> 0]
Vacant(n) == [occ |-> FALSE, cursor |-> 0, next |-> n]

slab_contains(slab, key) ==
    key >= 0 /\ key < Len(slab.entries) /\ slab.entries[key + 1].occ

\* Slab::insert: returns <<key, slab>>
slab_insert(slab, h) ==
    LET key == slab.next IN
    IF key = Len(slab.entries)
    THEN <<key, [entries |-> Append(slab.entries, Occupied(h)), next |-> key + 1]>>
    ELSE <<key, [entries |-> [slab.entries EXCEPT ![key + 1] = Occupied(h)],
                 next |-> slab.entries[key + 1].next]>>

slab_remove(slab, key) ==
    [entries |-> [slab.entries EXCEPT ![key + 1] = Vacant(slab.next)], next |-> key]

\* FileHandler::new()
FileHandler_new == [cursor |-> 0]

\* FileHub::make: returns <<fh, hub>>
FileHub_make(h, ino) ==
    LET slab == IF ino \in DOMAIN h THEN h[ino] ELSE Slab_new
        ins == slab_insert(slab, FileHandler_new)
    IN <<ins[1], Put(h, ino, ins[2])>>

FileHub_get(h, ino, fh) ==
    IF ino \in DOMAIN h /\ slab_contains(h[ino], fh)
    THEN [some |-> TRUE, cursor |-> h[ino].entries[fh + 1].cursor]
    ELSE [some |-> FALSE, cursor |-> 0]

\* FileHub::close: returns [some, hub]
FileHub_close(h, ino, fh) ==
    IF ino \in DOMAIN h /\ slab_contains(h[ino], fh)
    THEN [some |-> TRUE, hub |-> [h EXCEPT ![ino] = slab_remove(h[ino], fh)]]
    ELSE [some |-> FALSE, hub |-> h]

\* a Slab of the model holds at most MaxFh entries
SlabHasRoom(h, ino) ==
    IF ino \notin DOMAIN h THEN TRUE
    ELSE IF Len(h[ino].entries) < MaxFh THEN TRUE
    ELSE h[ino].next < Len(h[ino].entries)

HubHandles(h) == {<<i, f>> \in (DOMAIN h) \X (0..MaxFh) : slab_contains(h[i], f)}

----------------------------------------------------------------------------
(* TiFs: the closures the facade runs in one transaction (fs/tikv_fs.rs) *)

\* init that makes the root directory without looking for one
TiFs_init_always_mkdir(db) ==
    LET m == mkdir(db, 0, "") IN IF ~m.ok THEN m ELSE Ok(m.db, 0)

TiFs_init(db) ==
    LET root_inode == read_inode(db, ROOT_INODE) IN
    IF ~root_inode.ok
    THEN LET m == mkdir(db, 0, "") IN IF ~m.ok THEN m ELSE Ok(m.db, 0)
    ELSE Ok(db, 0)

\* lookup: lookup_file reads the parent's Directory, then read_inode
TiFs_lookup(db, parent, name) ==
    LET rd == read_dir(db, parent) IN
    IF ~rd.ok THEN rd
    ELSE IF name \notin DirNames(rd.val) THEN Err("FileNotFound")
    ELSE read_inode(db, DirFind(rd.val, name).ino)

\* setattr with only the size argument given (size: [some, size])
TiFs_setattr(db, ino, size) ==
    LET ri == read_inode(db, ino) IN
    IF ~ri.ok THEN ri
    ELSE LET attr == set_size(ri.val, IF size.some THEN size.size ELSE ri.val.size,
                              BlockSize)
         IN Ok(save_inode(db, attr), attr)

\* as_file_perm: a mode is its set of bits
as_file_perm(mode) == mode \ {"S_ISUID", "S_ISGID"}

\* TiFs::setattr on the attributes of the FileAttr that the stored inode of the
\* model does not carry (fa), next to TiFs_setattr for the size. a: the arguments,
\* each [some, v], atime and mtime [some, now, v]; now: SystemTime::now()
TiFs_setattr_attr(fa, a, now) ==
    [perm |-> IF a.mode.some THEN as_file_perm(a.mode.v) ELSE fa.perm,
     uid |-> IF a.uid.some THEN a.uid.v ELSE fa.uid,
     gid |-> IF a.gid.some THEN a.gid.v ELSE fa.gid,
     atime |-> IF a.atime.some /\ ~a.atime.now THEN a.atime.v ELSE now,
     mtime |-> IF a.mtime.some /\ ~a.mtime.now THEN a.mtime.v ELSE now,
     ctime |-> IF a.ctime.some THEN a.ctime.v ELSE fa.ctime,
     crtime |-> IF a.crtime.some THEN a.crtime.v ELSE fa.crtime,
     flags |-> IF a.flags.some THEN a.flags.v ELSE fa.flags]

TiFs_mkdir(db, parent, name) == mkdir(db, parent, name)

TiFs_mknod(db, parent, name, kind) == make_inode(db, parent, name, kind)

TiFs_rmdir(db, parent, name) ==
    LET rd == read_dir(db, parent) IN
    IF ~rd.ok THEN rd
    ELSE IF name \notin DirNames(rd.val) THEN Err("FileNotFound")
    ELSE
    LET item == DirFind(rd.val, name)
        dir_contents == read_dir(db, item.ino)
    IN
    IF ~dir_contents.ok THEN dir_contents
    ELSE IF Len(dir_contents.val) /= 0 THEN Err("DirNotEmpty")
    ELSE LET sd == save_dir(db, parent, DirWithout(rd.val, name)) IN
    IF ~sd.ok THEN sd
    ELSE Ok(remove_inode(sd.db, item.ino), 0)

TiFs_link(db, ino, newparent, newname) ==
    LET ri == read_inode(db, ino) IN
    IF ~ri.ok THEN ri
    ELSE LET rd == read_dir(db, newparent) IN
    IF ~rd.ok THEN rd
    ELSE IF newname \in DirNames(rd.val) THEN Err("FileExist")
    ELSE LET sd == save_dir(db, newparent,
                            Append(rd.val, DirItem(ino, newname, ri.val.kind)))
         IN
    IF ~sd.ok THEN sd
    ELSE LET attr == [ri.val EXCEPT !.nlink = @ + 1]
         IN Ok(save_inode(sd.db, attr), attr)

TiFs_unlink(db, parent, name) ==
    LET rd == read_dir(db, parent) IN
    IF ~rd.ok THEN rd
    ELSE IF name \notin DirNames(rd.val) THEN Err("FileNotFound")
    ELSE
    LET item == DirFind(rd.val, name)
        sd == save_dir(db, parent, DirWithout(rd.val, name))
    IN
    IF ~sd.ok THEN sd
    ELSE LET ri == read_inode(sd.db, item.ino) IN
    IF ~ri.ok THEN ri
    ELSE IF ri.val.nlink = 0 THEN Err("Overflow")
    ELSE Ok(save_inode(sd.db, [ri.val EXCEPT !.nlink = @ - 1]), 0)

\* rename that does not save the source directory after taking the name out of it
TiFs_rename_keeps_source(db, parent, name, newparent, newname) ==
    LET rd == read_dir(db, parent) IN
    IF ~rd.ok THEN rd
    ELSE IF name \notin DirNames(rd.val) THEN Err("FileNotFound")
    ELSE
    LET item == DirFind(rd.val, name)
        dir == DirWithout(rd.val, name)
        sd == Ok(db, 0)
    IN
    IF ~sd.ok THEN sd
    ELSE
    LET nd == IF parent = newparent THEN Ok(sd.db, dir) ELSE read_dir(sd.db, newparent) IN
    IF ~nd.ok THEN nd
    ELSE
    LET replaced == newname \in DirNames(nd.val)
        new_dir == Append(DirWithout(nd.val, newname), [item EXCEPT !.name = newname])
        ro == IF replaced THEN read_inode(sd.db, DirFind(nd.val, newname).ino)
              ELSE Err("-")
    IN
    IF replaced /\ ~ro.ok THEN ro
    ELSE IF replaced /\ ro.val.nlink = 0 THEN Err("Overflow")
    ELSE
    LET db1 == IF replaced THEN save_inode(sd.db, [ro.val EXCEPT !.nlink = @ - 1])
               ELSE sd.db
        sd2 == save_dir(db1, newparent, new_dir)
    IN IF ~sd2.ok THEN sd2 ELSE Ok(sd2.db, 0)

\* TiFs::rename: the name moves between the Directory lists; a replaced inode loses a link
TiFs_rename(db, parent, name, newparent, newname) ==
    LET rd == read_dir(db, parent) IN
    IF ~rd.ok THEN rd
    ELSE IF name \notin DirNames(rd.val) THEN Err("FileNotFound")
    ELSE
    LET item == DirFind(rd.val, name)
        dir == DirWithout(rd.val, name)
        sd == save_dir(db, parent, dir)
    IN
    IF ~sd.ok THEN sd
    ELSE
    LET nd == IF parent = newparent THEN Ok(sd.db, dir) ELSE read_dir(sd.db, newparent) IN
    IF ~nd.ok THEN nd
    ELSE
    LET replaced == newname \in DirNames(nd.val)
        new_dir == Append(DirWithout(nd.val, newname), [item EXCEPT !.name = newname])
        ro == IF replaced THEN read_inode(sd.db, DirFind(nd.val, newname).ino)
              ELSE Err("-")
    IN
    IF replaced /\ ~ro.ok THEN ro
    ELSE IF replaced /\ ro.val.nlink = 0 THEN Err("Overflow")
    ELSE
    LET db1 == IF replaced THEN save_inode(sd.db, [ro.val EXCEPT !.nlink = @ - 1])
               ELSE sd.db
        sd2 == save_dir(db1, newparent, new_dir)
    IN IF ~sd2.ok THEN sd2 ELSE Ok(sd2.db, 0)

TiFs_symlink(db, parent, name, target) ==
    LET mi == make_inode(db, parent, name, "Symlink") IN
    IF ~mi.ok THEN mi
    ELSE LET w == write_data(mi.db, mi.val.ino, 0, target) IN
    IF ~w.ok THEN w
    ELSE LET attr == set_size(mi.val, w.val, BlockSize)
         IN Ok(save_inode(w.db, attr), attr)

TiFs_readlink(db, ino) == read_data(db, ino, 0, [some |-> FALSE, size |-> 0])

TiFs_fallocate(db, ino, offset, length) ==
    LET ri == read_inode(db, ino) IN
    IF ~ri.ok THEN ri ELSE fallocate(db, ri.val, offset, length)

\* TiFs::statfs: scans the inodes in a transaction of its own, which writes nothing
TiFs_statfs(db) ==
    LET meta == read_meta(db)
        next_inode == IF meta.some THEN meta.inode_next ELSE ROOT_INODE
        scanned == {i \in DOMAIN db.inode : i >= ROOT_INODE /\ i < next_inode}
        b == SumBlocks(db, scanned)
        f == Cardinality(scanned)
    IN Ok(db, StatFs_new(b, U64_MAX, U64_MAX, f, U64_MAX - next_inode))

\* read and write: the position is the hub handle's cursor plus offset
TiFs_read(db, h, ino, fh, offset, size) ==
    LET handler == FileHub_get(h, ino, fh) IN
    IF ~handler.some THEN Err("FhNotFound")
    ELSE IF handler.cursor + offset < 0 THEN Err("InvalidOffset")
    ELSE read_data(db, ino, handler.cursor + offset, [some |-> TRUE, size |-> size])

TiFs_write(db, h, ino, fh, offset, data) ==
    LET handler == FileHub_get(h, ino, fh) IN
    IF ~handler.some THEN Err("FhNotFound")
    ELSE IF handler.cursor + offset < 0 THEN Err("InvalidOffset")
    ELSE write_data(db, ino, handler.cursor + offset, data)


\* TiFs::open: a new hub handle; open flags are sets of flag bits, `a | b` their
\* union and `!= 0` non-emptiness. `flags | O_DIRECT != 0` is `(flags | O_DIRECT) != 0`.
\* Returns [fh, flags, hub]
TiFs_open(h, direct_io, ino, flags) ==
    LET mk == FileHub_make(h, ino)
        open_flags == IF direct_io \/ (flags \cup {"O_DIRECT"}) /= {}
                      THEN {"FOPEN_DIRECT_IO"} ELSE {}
    IN [fh |-> mk[1], flags |-> open_flags, hub |-> mk[2]]

\* lseek whose SEEK_CUR counts from the start of the file
TiFs_lseek_from_start(db, h, ino, fh, offset, whence) ==
    LET file_handler == FileHub_get(h, ino, fh)
        ri == read_inode(db, ino)
    IN
    IF ~file_handler.some THEN [r |-> Err("FhNotFound"), hub |-> h]
    ELSE IF ~ri.ok THEN [r |-> Err(ri.err), hub |-> h]
    ELSE IF whence \notin {"SEEK_SET", "SEEK_CUR", "SEEK_END"}
    THEN [r |-> Err("UnknownWhence"), hub |-> h]
    ELSE
    LET target_cursor == CASE whence = "SEEK_SET" -> offset
                           [] whence = "SEEK_CUR" -> offset
                           [] whence = "SEEK_END" -> ri.val.size + offset
    IN
    IF target_cursor < 0 THEN [r |-> Err("InvalidOffset"), hub |-> h]
    ELSE [r |-> Ok(db, target_cursor),
          hub |-> [h EXCEPT ![ino].entries[fh + 1].cursor = target_cursor]]

\* TiFs::lseek: the new cursor of the hub handle; returns [r, hub]
TiFs_lseek(db, h, ino, fh, offset, whence) ==
    LET file_handler == FileHub_get(h, ino, fh)
        ri == read_inode(db, ino)
    IN
    IF ~file_handler.some THEN [r |-> Err("FhNotFound"), hub |-> h]
    ELSE IF ~ri.ok THEN [r |-> Err(ri.err), hub |-> h]
    ELSE IF whence \notin {"SEEK_SET", "SEEK_CUR", "SEEK_END"}
    THEN [r |-> Err("UnknownWhence"), hub |-> h]
    ELSE
    LET target_cursor == CASE whence = "SEEK_SET" -> offset
                           [] whence = "SEEK_CUR" -> file_handler.cursor + offset
                           [] whence = "SEEK_END" -> ri.val.size + offset
    IN
    IF target_cursor < 0 THEN [r |-> Err("InvalidOffset"), hub |-> h]
    ELSE [r |-> Ok(db, target_cursor),
          hub |-> [h EXCEPT ![ino].entries[fh + 1].cursor = target_cursor]]

\* TiFs::readdir. The Directory is a HashMap: into_values yields its items in the
\* order of the map that this call has decoded, which is any order p of the items.
\* Returns a Dir: [offset, items]
TiFs_readdir(db, ino, offset, p) ==
    LET head == (IF offset = 0 THEN <<DirItem(ROOT_INODE, "..", "Directory")>> ELSE <<>>)
                  \o (IF offset <= 1 THEN <<DirItem(ino, ".", "Directory")>> ELSE <<>>)
        skip == offset - Min(2, offset)
        directory == read_dir(db, ino)
    IN
    IF ~directory.ok THEN directory
    ELSE LET values == [i \in 1 .. Len(directory.val) |-> directory.val[p[i]]]
         IN Ok(db, [offset |-> offset,
                    items |-> head \o SubSeq(values, skip + 1, Len(values))])

\* impl FsReply<Dir> for ReplyDirectory: the entries added to the reply, each with
\* the offset index + 1 + dir.offset; the reply buffer is full after k entries
ReplyDirectory_reply_ok(dir, k) ==
    [i \in 1 .. Min(k, Len(dir.items)) |->
        [ino |-> dir.items[i].ino, offset |-> i + dir.offset,
         typ |-> dir.items[i].typ, name |-> dir.items[i].name]]

\* setlkw whose WRLCK arm does not look at the number of owners
TiFs_setlkw_any_owner(db, ino, lock_owner, typ) ==
    LET ri == read_inode(db, ino) IN
    IF ~ri.ok THEN ri
    ELSE
    LET inode == ri.val IN
    IF typ = F_WRLCK
    THEN IF inode.owner_set = {}
         THEN Ok(save_inode(db, [inode EXCEPT !.lk_type = F_WRLCK,
                                              !.owner_set = @ \cup {lock_owner}]), TRUE)
         ELSE IF lock_owner \in inode.owner_set
         THEN Ok(save_inode(db, [inode EXCEPT !.lk_type = F_WRLCK]), TRUE)
         ELSE Err("InvalidLock")
    ELSE IF typ = F_RDLCK
    THEN IF inode.lk_type = F_WRLCK THEN Ok(db, FALSE)
         ELSE Ok(save_inode(db, [inode EXCEPT !.lk_type = F_RDLCK,
                                              !.owner_set = @ \cup {lock_owner}]), TRUE)
    ELSE Err("InvalidLock")

\* the closure of one attempt of TiFs::setlkw: val TRUE when the lock was taken,
\* FALSE when the loop goes round again
TiFs_setlkw(db, ino, lock_owner, typ) ==
    LET ri == read_inode(db, ino) IN
    IF ~ri.ok THEN ri
    ELSE
    LET inode == ri.val IN
    IF typ = F_WRLCK
    THEN IF Cardinality(inode.owner_set) > 1 THEN Ok(db, FALSE)
         ELSE IF inode.owner_set = {}
         THEN Ok(save_inode(db, [inode EXCEPT !.lk_type = F_WRLCK,
                                              !.owner_set = @ \cup {lock_owner}]), TRUE)
         ELSE IF lock_owner \in inode.owner_set
         THEN Ok(save_inode(db, [inode EXCEPT !.lk_type = F_WRLCK]), TRUE)
         ELSE Err("InvalidLock")
    ELSE IF typ = F_RDLCK
    THEN IF inode.lk_type = F_WRLCK THEN Ok(db, FALSE)
         ELSE Ok(save_inode(db, [inode EXCEPT !.lk_type = F_RDLCK,
                                              !.owner_set = @ \cup {lock_owner}]), TRUE)
    ELSE Err("InvalidLock")

\* setlk whose WRLCK arm upgrades a read lock without looking at who else holds it
TiFs_setlk_upgrades_shared(db, ino, lock_owner, typ, sleep) ==
    LET ri == read_inode(db, ino) IN
    IF ~ri.ok THEN ri
    ELSE
    LET inode == ri.val IN
    IF inode.kind = "Directory" THEN Err("InvalidLock")
    ELSE IF typ = F_RDLCK
    THEN IF inode.lk_type = F_WRLCK
         THEN IF sleep THEN Ok(db, FALSE) ELSE Err("InvalidLock")
         ELSE Ok(save_inode(db, [inode EXCEPT !.owner_set = @ \cup {lock_owner},
                                              !.lk_type = F_RDLCK]), TRUE)
    ELSE IF typ = F_WRLCK
    THEN IF inode.lk_type = F_RDLCK
         THEN Ok(save_inode(db, [inode EXCEPT !.owner_set = {lock_owner},
                                              !.lk_type = F_WRLCK]), TRUE)
         ELSE IF inode.lk_type = F_UNLCK
         THEN Ok(save_inode(db, [inode EXCEPT !.owner_set = {lock_owner},
                                              !.lk_type = F_WRLCK]), TRUE)
         ELSE IF inode.lk_type = F_WRLCK
         THEN IF sleep THEN Ok(db, FALSE) ELSE Err("InvalidLock")
         ELSE Err("InvalidLock")
    ELSE IF typ = F_UNLCK
    THEN LET owner_set == inode.owner_set \ {lock_owner}
         IN Ok(save_inode(db, [inode EXCEPT
                                  !.owner_set = owner_set,
                                  !.lk_type = IF owner_set = {} THEN F_UNLCK ELSE @]),
               TRUE)
    ELSE Err("InvalidLock")

\* setlk whose UNLCK arm leaves lk_type as it is when the last owner goes
TiFs_setlk_keeps_type(db, ino, lock_owner, typ, sleep) ==
    LET ri == read_inode(db, ino) IN
    IF ~ri.ok THEN ri
    ELSE
    LET inode == ri.val IN
    IF inode.kind = "Directory" THEN Err("InvalidLock")
    ELSE IF typ = F_RDLCK
    THEN IF inode.lk_type = F_WRLCK
         THEN IF sleep THEN Ok(db, FALSE) ELSE Err("InvalidLock")
         ELSE Ok(save_inode(db, [inode EXCEPT !.owner_set = @ \cup {lock_owner},
                                              !.lk_type = F_RDLCK]), TRUE)
    ELSE IF typ = F_WRLCK
    THEN IF inode.lk_type = F_RDLCK
         THEN IF inode.owner_set = {lock_owner}
              THEN Ok(save_inode(db, [inode EXCEPT !.lk_type = F_WRLCK]), TRUE)
              ELSE IF sleep THEN Ok(db, FALSE) ELSE Err("InvalidLock")
         ELSE IF inode.lk_type = F_UNLCK
         THEN Ok(save_inode(db, [inode EXCEPT !.owner_set = {lock_owner},
                                              !.lk_type = F_WRLCK]), TRUE)
         ELSE IF inode.lk_type = F_WRLCK
         THEN IF sleep THEN Ok(db, FALSE) ELSE Err("InvalidLock")
         ELSE Err("InvalidLock")
    ELSE IF typ = F_UNLCK
    THEN Ok(save_inode(db, [inode EXCEPT !.owner_set = @ \ {lock_owner}]), TRUE)
    ELSE Err("InvalidLock")

\* the closure of TiFs::setlk: val is not_again, FALSE sends the request to setlkw
TiFs_setlk(db, ino, lock_owner, typ, sleep) ==
    LET ri == read_inode(db, ino) IN
    IF ~ri.ok THEN ri
    ELSE
    LET inode == ri.val IN
    IF inode.kind = "Directory" THEN Err("InvalidLock")
    ELSE IF typ = F_RDLCK
    THEN IF inode.lk_type = F_WRLCK
         THEN IF sleep THEN Ok(db, FALSE) ELSE Err("InvalidLock")
         ELSE Ok(save_inode(db, [inode EXCEPT !.owner_set = @ \cup {lock_owner},
                                              !.lk_type = F_RDLCK]), TRUE)
    ELSE IF typ = F_WRLCK
    THEN IF inode.lk_type = F_RDLCK
         THEN IF inode.owner_set = {lock_owner}
              THEN Ok(save_inode(db, [inode EXCEPT !.lk_type = F_WRLCK]), TRUE)
              ELSE IF sleep THEN Ok(db, FALSE) ELSE Err("InvalidLock")
         ELSE IF inode.lk_type = F_UNLCK
         THEN Ok(save_inode(db, [inode EXCEPT !.owner_set = {lock_owner},
                                              !.lk_type = F_WRLCK]), TRUE)
         ELSE IF inode.lk_type = F_WRLCK
         THEN IF sleep THEN Ok(db, FALSE) ELSE Err("InvalidLock")
         ELSE Err("InvalidLock")
    ELSE IF typ = F_UNLCK
    THEN LET owner_set == inode.owner_set \ {lock_owner}
         IN Ok(save_inode(db, [inode EXCEPT
                                  !.owner_set = owner_set,
                                  !.lk_type = IF owner_set = {} THEN F_UNLCK ELSE @]),
               TRUE)
    ELSE Err("InvalidLock")

----------------------------------------------------------------------------
(* The transaction driver and the replies *)

\* TiFs::with_pessimistic: commit the closure's view on Ok, roll back on Err
with_pessimistic(db, r) == IF r.ok THEN r.db ELSE db

Reply(op, args, r) ==
    [op |-> op, args |-> args, ok |-> r.ok, err |-> r.err,
     val |-> IF r.ok THEN r.val ELSE 0]
NoReply == [op |-> "none", args |-> <<>>, ok |-> TRUE, err |-> "Ok", val |-> 0]

Inos == 1..MaxIno
Dirs(db) == {i \in DOMAIN db.inode : db.inode[i].kind = "Directory"}
Files(db) == {i \in DOMAIN db.inode : db.inode[i].kind /= "Directory"}
\* the kind of the entry `name` of directory `parent`, "none" when absent
EntryKind(db, parent, name) ==
    LET rd == read_dir(db, parent) IN
    IF rd.ok /\ name \in DirNames(rd.val) THEN DirFind(rd.val, name).typ ELSE "none"
\* inode ids are handed out up to MaxIno
CanAllocate(db) == ~db.meta.some \/ db.meta.inode_next <= MaxIno

----------------------------------------------------------------------------
(* Spec: one mount serving the kernel's requests one transaction at a time *)

\* the Index entries of directory `parent`, as pairs <<name, ino>>
ParentIndex(db, parent) ==
    {<<k[2], db.index[k]>> : k \in {x \in DOMAIN db.index : x[1] = parent}}

\* what the request in progress found before it changed the store: nothing yet
NoTrack == [st |-> "none", ino |-> 0, nlink |-> 0, dir |-> <<>>, index |-> {}]

\* the next value of tasks when request op(args) with closure result r is served.
\* A successful mkdir of a name absent from its parent records the parent's
\* Directory and Index entries as they were, and a successful rmdir of the same
\* name that follows at once keeps them; a successful rename records the inode the
\* source name resolved to, its nlink and, for a directory, the entries that lookup
\* resolves under it
Track(op, args, r) ==
    IF ~r.ok THEN NoTrack
    ELSE IF op \in {"mkdir", "Txn::mkdir"}
    THEN LET rd == read_dir(store, args[1]) IN
         IF rd.ok /\ args[2] \notin DirNames(rd.val)
         THEN [NoTrack EXCEPT !.st = "made", !.dir = rd.val,
                              !.index = ParentIndex(store, args[1])]
         ELSE NoTrack
    ELSE IF op \in {"rmdir", "Txn::rmdir"}
    THEN IF tasks.st = "made" /\ last.op \in {"mkdir", "Txn::mkdir"} /\ last.args = args
         THEN [tasks EXCEPT !.st = "removed"]
         ELSE NoTrack
    ELSE IF op = "rename"
    THEN LET item == DirFind(read_dir(store, args[1]).val, args[2])
             sub == read_dir(store, item.ino)
             resolves(it) == LET l == TiFs_lookup(store, item.ino, it.name)
                             IN l.ok /\ l.val.ino = it.ino
         IN [NoTrack EXCEPT !.st = "renamed", !.ino = item.ino,
                            !.nlink = store.inode[item.ino].nlink,
                            !.dir = IF sub.ok THEN SelectSeq(sub.val, resolves)
                                    ELSE <<>>]
    ELSE NoTrack

Init ==
    /\ store = EmptyStore
    /\ hub = EmptyMap
    /\ mounted = FALSE
    /\ debug = FALSE
    /\ last = NoReply
    /\ hist = {}
    /\ tasks = NoTrack
    /\ nops = 0

\* a request whose closure result is r, run by with_pessimistic; h is the next value
\* of hist, the hub handles that were open when their file lost its last name
ServeH(op, args, r, h) ==
    /\ nops < MaxOps
    /\ nops' = nops + 1
    /\ store' = with_pessimistic(store, r)
    /\ last' = Reply(op, args, r)
    /\ hist' = h
    /\ tasks' = Track(op, args, r)
    /\ UNCHANGED <<mounted, debug>>

Serve(op, args, r) == ServeH(op, args, r, hist)

\* the hub handles of the file that unlink(parent, name) leaves without a name
OrphanedBy(db, h, parent, name) ==
    LET rd == read_dir(db, parent) IN
    IF rd.ok /\ name \in DirNames(rd.val) /\ TiFs_unlink(db, parent, name).ok
    THEN LET ino == DirFind(rd.val, name).ino
         IN IF db.inode[ino].nlink = 1 THEN {x \in HubHandles(h) : x[1] = ino} ELSE {}
    ELSE {}

FsInit ==
    /\ ~mounted
    /\ store' = with_pessimistic(store, TiFs_init(store))
    /\ mounted' = TiFs_init(store).ok
    /\ last' = Reply("init", <<>>, TiFs_init(store))
    /\ UNCHANGED <<hub, debug, hist, tasks, nops>>

Lookup ==
    /\ mounted
    /\ \E parent \in Dirs(store), name \in Names \cup {LongName} :
          Serve("lookup", <<parent, name>>, TiFs_lookup(store, parent, name))
    /\ UNCHANGED hub

Mknod ==
    /\ mounted /\ CanAllocate(store)
    /\ \E parent \in Dirs(store), name \in Names :
          Serve("mknod", <<parent, name>>,
                TiFs_mknod(store, parent, name, "RegularFile"))
    /\ UNCHANGED hub

Mkdir ==
    /\ mounted /\ CanAllocate(store)
    /\ \E parent \in Dirs(store), name \in Names :
          Serve("mkdir", <<parent, name>>, TiFs_mkdir(store, parent, name))
    /\ UNCHANGED hub

Symlink ==
    /\ mounted /\ CanAllocate(store)
    /\ \E parent \in Dirs(store), name \in Names :
          Serve("symlink", <<parent, name>>, TiFs_symlink(store, parent, name, <<1>>))
    /\ UNCHANGED hub

\* create = mknod, then open on the new inode
Create ==
    /\ mounted /\ CanAllocate(store)
    /\ \E parent \in Dirs(store), name \in Names :
          LET entry == TiFs_mknod(store, parent, name, "RegularFile")
              made == FileHub_make(hub, entry.val.ino)
          IN /\ Serve("create", <<parent, name>>,
                      IF entry.ok THEN Ok(entry.db, <<entry.val.ino, made[1]>>)
                      ELSE entry)
             /\ hub' = IF entry.ok THEN made[2] ELSE hub

Link ==
    /\ mounted
    /\ \E ino \in Files(store), newparent \in Dirs(store), newname \in Names :
          Serve("link", <<ino, newparent, newname>>,
                TiFs_link(store, ino, newparent, newname))
    /\ UNCHANGED hub

Unlink ==
    /\ mounted
    /\ \E parent \in Dirs(store), name \in Names :
          /\ EntryKind(store, parent, name) /= "Directory"
          /\ ServeH("unlink", <<parent, name>>, TiFs_unlink(store, parent, name),
                    hist \cup OrphanedBy(store, hub, parent, name))
    /\ UNCHANGED hub

Rmdir ==
    /\ mounted
    /\ \E parent \in Dirs(store), name \in Names :
          /\ EntryKind(store, parent, name) \in {"Directory", "none"}
          /\ Serve("rmdir", <<parent, name>>, TiFs_rmdir(store, parent, name))
    /\ UNCHANGED hub

\* directory x is `dir` or lies below it, looking at most depth levels down
RECURSIVE IsUnder(_, _, _, _)
IsUnder(db, dir, x, depth) ==
    \/ x = dir
    \/ /\ depth > 0
       /\ read_dir(db, dir).ok
       /\ \E i \in 1..Len(read_dir(db, dir).val) :
             LET it == read_dir(db, dir).val[i] IN
             it.typ = "Directory" /\ IsUnder(db, it.ino, x, depth - 1)

\* the kernel renames a directory only onto a directory or a free name, a file only
\* onto a file or a free name, never a directory into itself or below itself nor
\* onto one of the directories above it, and
\* answers a rename between two names of one inode itself, without a request to the
\* file system
Rename ==
    /\ mounted
    /\ \E parent \in Dirs(store), name \in Names,
          newparent \in Dirs(store), newname \in Names :
          LET k == EntryKind(store, parent, name)
              nk == EntryKind(store, newparent, newname)
          IN /\ nk = "none" \/ k = "none" \/ (k = "Directory") = (nk = "Directory")
             /\ k = "Directory" =>
                   ~IsUnder(store, DirFind(read_dir(store, parent).val, name).ino,
                            newparent, MaxIno)
             /\ (k /= "none" /\ nk /= "none") =>
                   DirFind(read_dir(store, parent).val, name).ino
                      /= DirFind(read_dir(store, newparent).val, newname).ino
             /\ (k = "Directory" /\ nk = "Directory") =>
                   ~IsUnder(store, DirFind(read_dir(store, newparent).val, newname).ino,
                            parent, MaxIno)
             /\ Serve("rename", <<parent, name, newparent, newname>>,
                      TiFs_rename(store, parent, name, newparent, newname))
    /\ UNCHANGED hub

\* TiFs::open: the handle lives in the hub only
Open ==
    /\ mounted
    /\ \E ino \in Files(store) :
          /\ SlabHasRoom(hub, ino)
          /\ hub' = FileHub_make(hub, ino)[2]
          /\ last' = Reply("open", <<ino>>, Ok(store, FileHub_make(hub, ino)[1]))
    /\ nops < MaxOps /\ nops' = nops + 1
    /\ UNCHANGED <<store, mounted, debug, hist, tasks>>

\* TiFs::release
Release ==
    /\ mounted
    /\ \E h \in HubHandles(hub) :
          /\ hub' = FileHub_close(hub, h[1], h[2]).hub
          /\ last' = Reply("release", h, Ok(store, 0))
          /\ hist' = hist \ {h}
    /\ nops < MaxOps /\ nops' = nops + 1
    /\ UNCHANGED <<store, mounted, debug, tasks>>

Read ==
    /\ mounted
    /\ \E h \in HubHandles(hub) :
          Serve("read", h, TiFs_read(store, hub, h[1], h[2], 0, 1))
    /\ UNCHANGED hub

Write ==
    /\ mounted
    /\ \E h \in HubHandles(hub) :
          Serve("write", h, TiFs_write(store, hub, h[1], h[2], 0, <<1>>))
    /\ UNCHANGED hub

Next ==
    \/ FsInit \/ Lookup \/ Mknod \/ Mkdir \/ Symlink \/ Create
    \/ Link \/ Unlink \/ Rmdir \/ Rename
    \/ Open \/ Release \/ Read \/ Write

Spec == Init /\ [][Next]_vars

\* SpecNames: the requests of Spec that create, link, move and remove names
NextNames ==
    \/ FsInit \/ Mknod \/ Mkdir \/ Link \/ Unlink \/ Rmdir \/ Rename

SpecNames == Init /\ [][NextNames]_vars

----------------------------------------------------------------------------
(* SpecTxn: the operations of Txn on names, inodes and stored file handles, each *)
(* run in a transaction of its own                                               *)

TxnMakeInode ==
    /\ mounted /\ CanAllocate(store)
    /\ \E parent \in Dirs(store), name \in Names :
          Serve("Txn::make_inode", <<parent, name>>,
                make_inode(store, parent, name, "RegularFile"))
    /\ UNCHANGED hub

TxnMkdir ==
    /\ mounted /\ CanAllocate(store)
    /\ \E parent \in Dirs(store), name \in Names :
          Serve("Txn::mkdir", <<parent, name>>, mkdir(store, parent, name))
    /\ UNCHANGED hub

TxnLookup ==
    /\ mounted
    /\ \E parent \in Dirs(store), name \in Names :
          Serve("Txn::lookup", <<parent, name>>, lookup(store, parent, name))
    /\ UNCHANGED hub

TxnLink ==
    /\ mounted
    /\ \E ino \in Files(store), newparent \in Dirs(store), newname \in Names :
          Serve("Txn::link", <<ino, newparent, newname>>,
                link(store, ino, newparent, newname))
    /\ UNCHANGED hub

TxnUnlink ==
    /\ mounted
    /\ \E parent \in Dirs(store), name \in Names :
          Serve("Txn::unlink", <<parent, name>>, unlink(store, parent, name))
    /\ UNCHANGED hub

TxnRmdir ==
    /\ mounted
    /\ \E parent \in Dirs(store), name \in Names :
          Serve("Txn::rmdir", <<parent, name>>, rmdir(store, parent, name))
    /\ UNCHANGED hub

TxnOpen ==
    /\ mounted
    /\ \E ino \in Files(store) :
          /\ store.inode[ino].next_fh < MaxFh
          /\ Serve("Txn::open", <<ino>>, open(store, ino))
    /\ UNCHANGED hub

TxnClose ==
    /\ mounted
    /\ \E h \in DOMAIN store.handler :
          Serve("Txn::close", h, close(store, h[1], h[2]))
    /\ UNCHANGED hub

TxnRead ==
    /\ mounted
    /\ \E h \in DOMAIN store.handler :
          Serve("Txn::read", h, read(store, h[1], h[2], 0, 1))
    /\ UNCHANGED hub

TxnWrite ==
    /\ mounted
    /\ \E h \in DOMAIN store.handler :
          Serve("Txn::write", h, write(store, h[1], h[2], 0, <<1>>))
    /\ UNCHANGED hub

TxnFallocate ==
    /\ mounted
    /\ \E ino \in Files(store) :
          Serve("Txn::fallocate", <<ino, 0, 2 * BlockSize>>,
                fallocate(store, store.inode[ino], 0, 2 * BlockSize))
    /\ UNCHANGED hub

TxnStatfs ==
    /\ mounted
    /\ Serve("Txn::statfs", <<>>, statfs(store))
    /\ UNCHANGED hub

NextTxn ==
    \/ FsInit \/ TxnMakeInode \/ TxnMkdir \/ TxnLookup
    \/ TxnLink \/ TxnUnlink \/ TxnRmdir
    \/ TxnOpen \/ TxnClose \/ TxnRead \/ TxnWrite
    \/ TxnFallocate \/ TxnStatfs

SpecTxn == Init /\ [][NextTxn]_vars

----------------------------------------------------------------------------
(* SpecData: the data path of one regular file, one request per transaction.     *)
(* hist records which byte positions a successful write has covered, which      *)
(* kinds of request have been served, and which byte positions a setattr has cut *)
(* off that no write has covered since.                                          *)

\* the file of the data path: the first inode made after the root
DataFile == ROOT_INODE + 1

Fill(n, v) == [i \in 1..n |-> v]

Starts == {0, 1, BlockSize, BlockSize + 1}
Lens == {1, 2, BlockSize + 1}
Sizes == {0, 1, 2 * BlockSize, 4 * BlockSize}

\* the store after init and mknod(ROOT_INODE, "a")
DataStore ==
    LET s1 == with_pessimistic(EmptyStore, TiFs_init(EmptyStore))
    IN with_pessimistic(s1, TiFs_mknod(s1, ROOT_INODE, "a", "RegularFile"))

\* TiFs::clear_data: Txn::clear_data in a transaction of its own
TiFs_clear_data(db, ino) == clear_data(db, ino)

InitData ==
    /\ store = DataStore
    /\ hub = FileHub_make(EmptyMap, DataFile)[2]
    /\ mounted = TRUE
    /\ debug \in BOOLEAN
    /\ last = NoReply
    /\ hist = [covered |-> {}, kinds |-> {}, cut |-> {}]
    /\ tasks = <<>>
    /\ nops = 0

ServeData(op, args, r, covered) ==
    /\ nops < MaxDataOps
    /\ nops' = nops + 1
    /\ store' = with_pessimistic(store, r)
    /\ last' = Reply(op, args, r)
    /\ hist' = [covered |-> IF r.ok THEN hist.covered \cup covered ELSE hist.covered,
                kinds |-> hist.kinds \cup {op},
                cut |-> IF ~r.ok THEN hist.cut
                        ELSE IF op = "setattr"
                        THEN hist.cut \cup (args[1] .. (store.inode[DataFile].size - 1))
                        ELSE hist.cut \ covered]
    /\ UNCHANGED <<hub, mounted, debug, tasks>>

\* the bytes "ABCDE", written across the end of the first block
ABCDE == <<65, 66, 67, 68, 69>>

DataWrite ==
    /\ mounted
    /\ \E w \in (Starts \X Lens) \cup {<<BlockSize - 2, Len(ABCDE)>>} :
           LET start == w[1]
               data == IF start = BlockSize - 2 THEN ABCDE ELSE Fill(w[2], nops + 1)
           IN ServeData("write", <<start, data>>,
                        TiFs_write(store, hub, DataFile, 0, start, data),
                        start .. (start + Len(data) - 1))

DataRead ==
    /\ mounted
    /\ \E rd \in (Starts \X Lens) \cup {<<BlockSize - 6, 10>>} :
           ServeData("read", rd,
                     TiFs_read(store, hub, DataFile, 0, rd[1], rd[2]), {})

DataFallocate ==
    /\ mounted
    /\ \E length \in Sizes :
           ServeData("fallocate", <<0, length>>,
                     TiFs_fallocate(store, DataFile, 0, length), {})

DataSetattr ==
    /\ mounted
    /\ \E size \in Sizes :
           ServeData("setattr", <<size>>,
                     TiFs_setattr(store, DataFile, [some |-> TRUE, size |-> size]), {})

DataClear ==
    /\ mounted
    /\ ServeData("clear_data", <<>>, TiFs_clear_data(store, DataFile), {})

NextData == DataWrite \/ DataRead \/ DataFallocate \/ DataSetattr \/ DataClear

SpecData == InitData /\ [][NextData]_vars

----------------------------------------------------------------------------
(* SpecLock: setlk requests of several lock owners on the inodes of one store.   *)
(* The first transaction of setlk is one step; a request it sends to setlkw      *)
(* stays in tasks, and every attempt of the setlkw loop is a transaction and a   *)
(* step of its own, so other requests run between the attempts. hist records     *)
(* which lock each owner has been granted on DataFile and has not released.      *)

Owners == 1..MaxOwners
LockTypes == {F_RDLCK, F_WRLCK, F_UNLCK}
LockTargets == {ROOT_INODE, DataFile}

Idle == [pc |-> "idle", ino |-> 0, typ |-> F_UNLCK]
Waiting(ino, typ) == [pc |-> "wait", ino |-> ino, typ |-> typ]

\* the reply to setlk(ino, lock_owner, typ, sleep); waited: it went through setlkw
LockReply(ino, lock_owner, typ, sleep, waited, r) ==
    [op |-> "setlk", args |-> <<ino, lock_owner, typ, sleep>>,
     ok |-> r.ok, err |-> r.err, val |-> waited]

\* hist after setlk(ino, lock_owner, typ) has reported success
Granted(h, ino, lock_owner, typ) ==
    IF ino /= DataFile THEN h
    ELSE [held |-> [h.held EXCEPT ![lock_owner] = typ],
          released |-> IF typ = F_UNLCK /\ h.held[lock_owner] /= F_UNLCK
                       THEN h.released \cup {lock_owner} ELSE h.released]

InitLock ==
    /\ store = DataStore
    /\ hub = EmptyMap
    /\ mounted = TRUE
    /\ debug = FALSE
    /\ last = NoReply
    /\ hist = [held |-> [o \in Owners |-> F_UNLCK], released |-> {}]
    /\ tasks = [o \in Owners |-> Idle]
    /\ nops = 0

\* TiFs::setlk up to the end of its first transaction
Setlk ==
    /\ nops < MaxOps
    /\ nops' = nops + 1
    /\ \E lock_owner \in Owners, ino \in LockTargets, typ \in LockTypes,
          sleep \in BOOLEAN :
          LET r == TiFs_setlk(store, ino, lock_owner, typ, sleep) IN
          /\ tasks[lock_owner].pc = "idle"
          /\ store' = with_pessimistic(store, r)
          /\ IF r.ok /\ ~r.val
             THEN /\ tasks' = [tasks EXCEPT ![lock_owner] = Waiting(ino, typ)]
                  /\ UNCHANGED <<last, hist>>
             ELSE /\ last' = LockReply(ino, lock_owner, typ, sleep, FALSE, r)
                  /\ hist' = IF r.ok THEN Granted(hist, ino, lock_owner, typ) ELSE hist
                  /\ UNCHANGED tasks
    /\ UNCHANGED <<hub, mounted, debug>>

\* one attempt of the loop of TiFs::setlkw, and the end of setlk when it leaves the loop
Setlkw ==
    /\ \E lock_owner \in Owners :
          LET t == tasks[lock_owner]
              r == TiFs_setlkw(store, t.ino, lock_owner, t.typ)
          IN
          /\ t.pc = "wait"
          /\ store' = with_pessimistic(store, r)
          /\ IF r.ok /\ ~r.val
             THEN UNCHANGED <<last, hist, tasks>>
             ELSE /\ last' = LockReply(t.ino, lock_owner, t.typ, TRUE, TRUE, r)
                  /\ hist' = IF r.ok THEN Granted(hist, t.ino, lock_owner, t.typ) ELSE hist
                  /\ tasks' = [tasks EXCEPT ![lock_owner] = Idle]
    /\ UNCHANGED <<hub, mounted, debug, nops>>

NextLock == Setlk \/ Setlkw

SpecLock == InitLock /\ [][NextLock]_vars

----------------------------------------------------------------------------
(* SpecCreate: mknod and create requests of one or several mounts that overlap.  *)
(* A transaction reads the snapshot taken when it began; its writes reach the    *)
(* store at commit. The store is snapshot isolated: the commit of a transaction  *)
(* that wrote a key another transaction has committed since the snapshot fails   *)
(* with KeyError.                                                                *)

Creators == 1..MaxCreators
Scopes == {"inode", "block", "handler", "index"}

\* the keys on which the maps a and b differ
Differs(a, b) ==
    {k \in (DOMAIN a) \cup (DOMAIN b) :
        IF k \in DOMAIN a /\ k \in DOMAIN b THEN a[k] /= b[k] ELSE TRUE}

\* cur with the keys `keys` as they are in view
Merge(cur, view, keys) ==
    [k \in ((DOMAIN cur) \ keys) \cup (keys \cap DOMAIN view) |->
        IF k \in keys THEN view[k] ELSE cur[k]]

\* commit of a transaction begun at snap whose closure left view, on the store cur
commit(cur, snap, view) ==
    IF \/ (view.meta /= snap.meta /\ cur.meta /= snap.meta)
       \/ \E sc \in Scopes : Differs(snap[sc], view[sc]) \cap Differs(snap[sc], cur[sc]) /= {}
    THEN Err("KeyError")
    ELSE Ok([meta |-> IF view.meta /= snap.meta THEN view.meta ELSE cur.meta,
             inode |-> Merge(cur.inode, view.inode, Differs(snap.inode, view.inode)),
             block |-> Merge(cur.block, view.block, Differs(snap.block, view.block)),
             handler |-> Merge(cur.handler, view.handler,
                               Differs(snap.handler, view.handler)),
             index |-> Merge(cur.index, view.index, Differs(snap.index, view.index))],
            0)

\* TiFs::with_pessimistic of a closure that ran on snap with result r: commit on Ok
\* (the error of a failed commit is returned), rollback on Err
with_pessimistic_commit(cur, snap, r) ==
    IF ~r.ok THEN r
    ELSE LET c == commit(cur, snap, r.db)
         IN IF c.ok THEN Ok(c.db, r.val) ELSE c

NotBegun == [pc |-> "idle", name |-> "", create |-> FALSE, snap |-> EmptyStore,
             ok |-> FALSE, err |-> "-"]

InitCreate ==
    /\ store = with_pessimistic(EmptyStore, TiFs_init(EmptyStore))
    /\ hub = EmptyMap
    /\ mounted = TRUE
    /\ debug = FALSE
    /\ last = NoReply
    /\ hist = {}
    /\ tasks = [c \in Creators |-> NotBegun]
    /\ nops = 0

\* a mknod or create request begins its transaction
BeginCreate ==
    /\ \E c \in Creators, name \in Names, create \in BOOLEAN :
          /\ tasks[c].pc = "idle"
          /\ tasks' = [tasks EXCEPT ![c] = [NotBegun EXCEPT !.pc = "run", !.name = name,
                                                            !.create = create,
                                                            !.snap = store]]
    /\ UNCHANGED <<store, hub, mounted, debug, last, hist, nops>>

\* the closure of mknod has run on the snapshot and the transaction ends; create then
\* opens the new inode
EndCreate ==
    /\ \E c \in Creators :
          LET t == tasks[c]
              r == with_pessimistic_commit(
                       store, t.snap,
                       TiFs_mknod(t.snap, ROOT_INODE, t.name, "RegularFile"))
          IN
          /\ t.pc = "run"
          /\ store' = with_pessimistic(store, r)
          /\ hub' = IF r.ok /\ t.create THEN FileHub_make(hub, r.val.ino)[2] ELSE hub
          /\ last' = Reply(IF t.create THEN "create" ELSE "mknod",
                           <<ROOT_INODE, t.name>>, r)
          /\ tasks' = [tasks EXCEPT ![c] = [t EXCEPT !.pc = "done", !.ok = r.ok,
                                                     !.err = r.err,
                                                     !.snap = EmptyStore]]
    /\ UNCHANGED <<mounted, debug, hist, nops>>

NextCreate == BeginCreate \/ EndCreate

SpecCreate == InitCreate /\ [][NextCreate]_vars

----------------------------------------------------------------------------
(* SpecHandle: the requests of one mount on the handles of one regular file:     *)
(* open, release, lseek, read and write. tasks holds the mount option direct_io  *)
(* and, for every handle open, the position its last successful lseek returned   *)
(* (0 after open); hist lists the fh values the opens have returned.             *)

InitHandle ==
    /\ store = DataStore
    /\ hub = EmptyMap
    /\ mounted = TRUE
    /\ debug \in BOOLEAN
    /\ last = NoReply
    /\ hist = <<>>
    /\ \E direct_io \in BOOLEAN : tasks = [direct_io |-> direct_io, pos |-> EmptyMap]
    /\ nops = 0

\* a request on the hub whose result is r and whose hub, history and positions
\* afterwards are h, opened and pos
ServeHandle(op, args, r, h, opened, pos) ==
    /\ nops < MaxOps
    /\ nops' = nops + 1
    /\ store' = with_pessimistic(store, r)
    /\ hub' = h
    /\ last' = Reply(op, args, r)
    /\ hist' = opened
    /\ tasks' = [tasks EXCEPT !.pos = pos]
    /\ UNCHANGED <<mounted, debug>>

HandleOpen ==
    /\ SlabHasRoom(hub, DataFile)
    /\ \E flags \in SUBSET {"O_WRONLY", "O_DIRECT"} :
          LET o == TiFs_open(hub, tasks.direct_io, DataFile, flags)
          IN ServeHandle("open", <<DataFile, flags>>,
                         Ok(store, [fh |-> o.fh, flags |-> o.flags]),
                         o.hub, Append(hist, o.fh), Put(tasks.pos, o.fh, 0))

HandleRelease ==
    \E h \in HubHandles(hub) :
        ServeHandle("release", h, Ok(store, 0), FileHub_close(hub, h[1], h[2]).hub,
                    hist, Del(tasks.pos, h[2]))

HandleLseek ==
    \E h \in HubHandles(hub), offset \in {-1, 1, 2},
       whence \in {"SEEK_SET", "SEEK_CUR", "SEEK_END", "SEEK_DATA"} :
        LET s == TiFs_lseek(store, hub, h[1], h[2], offset, whence)
        IN ServeHandle("lseek", <<h[1], h[2], offset, whence>>, s.r, s.hub, hist,
                       IF s.r.ok THEN Put(tasks.pos, h[2], s.r.val) ELSE tasks.pos)

HandleRead ==
    \E h \in HubHandles(hub), offset \in {-1, 0, 1} :
        ServeHandle("read", <<h[1], h[2], offset, 2>>,
                    TiFs_read(store, hub, h[1], h[2], offset, 2), hub, hist, tasks.pos)

HandleWrite ==
    \E h \in HubHandles(hub), offset \in {-1, 0, 1} :
        ServeHandle("write", <<h[1], h[2], offset, <<nops + 1>>>>,
                    TiFs_write(store, hub, h[1], h[2], offset, <<nops + 1>>),
                    hub, hist, tasks.pos)

NextHandle == HandleOpen \/ HandleRelease \/ HandleLseek \/ HandleRead \/ HandleWrite

SpecHandle == InitHandle /\ [][NextHandle]_vars

----------------------------------------------------------------------------

(* SpecDir: a reader that lists the root directory with readdir, following the   *)
(* offset of the last entry each reply gave it, and mknod requests between two   *)
(* listings. hist holds the listing in progress: the offset of the next call,    *)
(* the names seen so far and the names of the whole first reply.                 *)

\* the orders in which a HashMap of n items can yield them
Orders(n) == {p \in [1 .. n -> 1 .. n] : \A i, j \in 1 .. n : p[i] = p[j] => i = j}

NoListing == [st |-> "idle", next |-> 0, seen |-> <<>>, first |-> <<>>]

InitDir ==
    /\ store = with_pessimistic(EmptyStore, TiFs_init(EmptyStore))
    /\ hub = EmptyMap
    /\ mounted = TRUE
    /\ debug = FALSE
    /\ last = NoReply
    /\ hist = NoListing
    /\ tasks = <<>>
    /\ nops = 0

\* the directory changes between two listings
DirMknod ==
    /\ hist.st \in {"idle", "done"}
    /\ nops < MaxOps /\ nops' = nops + 1
    /\ CanAllocate(store)
    /\ \E name \in Names :
          LET r == TiFs_mknod(store, ROOT_INODE, name, "RegularFile") IN
          /\ store' = with_pessimistic(store, r)
          /\ last' = Reply("mknod", <<ROOT_INODE, name>>, r)
    /\ hist' = NoListing
    /\ UNCHANGED <<hub, mounted, debug, tasks>>

\* one readdir call of the listing; the reply buffer takes the first k entries
DirRead ==
    /\ hist.st /= "done"
    /\ \E p \in Orders(Len(read_dir(store, ROOT_INODE).val)), k \in 1 .. MaxIno :
          LET r == TiFs_readdir(store, ROOT_INODE, hist.next, p)
              whole == ReplyDirectory_reply_ok(r.val, Len(r.val.items))
              got == ReplyDirectory_reply_ok(r.val, k)
          IN
          /\ last' = Reply("readdir", <<ROOT_INODE, hist.next>>, Ok(store, whole))
          /\ hist' = IF Len(got) = 0 THEN [hist EXCEPT !.st = "done"]
                     ELSE [st |-> "going",
                           next |-> got[Len(got)].offset,
                           seen |-> hist.seen \o [i \in 1 .. Len(got) |-> got[i].name],
                           first |-> IF hist.st = "idle"
                                     THEN [i \in 1 .. Len(whole) |-> whole[i].name]
                                     ELSE hist.first]
    /\ UNCHANGED <<store, hub, mounted, debug, tasks, nops>>

NextDir == DirMknod \/ DirRead

SpecDir == InitDir /\ [][NextDir]_vars

----------------------------------------------------------------------------

(* SpecAttr: setattr requests on one regular file. tasks holds the attributes of *)
(* its FileAttr that the stored inode of the model does not carry; hist is the   *)
(* clock, which every request advances. The file has just been made and its      *)
(* attributes read (getattr).                                                    *)

\* the FileAttr Txn::make_inode builds at time 0 for mode 0o644, uid 0, gid 0
FileAttr_made ==
    [perm |-> {"S_IRUSR", "S_IWUSR"}, uid |-> 0, gid |-> 0,
     atime |-> 0, mtime |-> 0, ctime |-> 0, crtime |-> 0, flags |-> 0]

AttrNames == {"mode", "uid", "gid", "size", "atime", "mtime", "ctime", "crtime", "flags"}

\* the arguments of a setattr call that provides the attributes of S
SetattrArgs(S, now_times) ==
    [mode |-> [some |-> "mode" \in S, v |-> {"S_IRUSR", "S_ISUID"}],
     uid |-> [some |-> "uid" \in S, v |-> 1],
     gid |-> [some |-> "gid" \in S, v |-> 1],
     size |-> [some |-> "size" \in S, size |-> BlockSize + 1],
     atime |-> [some |-> "atime" \in S, now |-> now_times, v |-> 0],
     mtime |-> [some |-> "mtime" \in S, now |-> now_times, v |-> 0],
     ctime |-> [some |-> "ctime" \in S, v |-> hist],
     crtime |-> [some |-> "crtime" \in S, v |-> hist],
     flags |-> [some |-> "flags" \in S, v |-> 1]]

InitAttr ==
    /\ store = DataStore
    /\ hub = EmptyMap
    /\ mounted = TRUE
    /\ debug = FALSE
    /\ last = Reply("getattr", <<DataFile, {}, FALSE>>, read_inode(DataStore, DataFile))
    /\ hist = 1
    /\ tasks = FileAttr_made
    /\ nops = 0

AttrSetattr ==
    /\ nops < MaxDataOps
    /\ nops' = nops + 1
    /\ \E S \in {X \in SUBSET AttrNames : Cardinality(X) <= 2}, now_times \in BOOLEAN :
          LET a == SetattrArgs(S, now_times)
              r == TiFs_setattr(store, DataFile, a.size)
          IN /\ store' = with_pessimistic(store, r)
             /\ tasks' = IF r.ok THEN TiFs_setattr_attr(tasks, a, hist) ELSE tasks
             /\ last' = Reply("setattr", <<DataFile, S, now_times>>, r)
    /\ hist' = hist + 1
    /\ UNCHANGED <<hub, mounted, debug>>

NextAttr == AttrSetattr

SpecAttr == InitAttr /\ [][NextAttr]_vars

----------------------------------------------------------------------------

(* SpecStat: statfs on a store that mknod and fallocate change. tasks is the      *)
(* maxsize option of the mount; Txn::begin_optimistic turns it into max_blocks,   *)
(* Txn::begin_pessimistic, which the facade uses, has no such argument.           *)

MaxSizes == {[some |-> FALSE, v |-> 0],
             [some |-> TRUE, v |-> MaxBlocks * BlockSize],
             [some |-> TRUE, v |-> 3 * MaxBlocks * BlockSize + 1]}

\* Txn::begin_optimistic: max_size.map(|size| size / block_size)
begin_optimistic(max_size) == [some |-> max_size.some, v |-> max_size.v \div BlockSize]

InitStat ==
    /\ store = with_pessimistic(EmptyStore, TiFs_init(EmptyStore))
    /\ hub = EmptyMap
    /\ mounted = TRUE
    /\ debug = FALSE
    /\ last = NoReply
    /\ hist = <<>>
    /\ tasks \in MaxSizes
    /\ nops = 0

ServeStat(op, args, r) ==
    /\ nops < MaxOps
    /\ nops' = nops + 1
    /\ store' = with_pessimistic(store, r)
    /\ last' = Reply(op, args, r)
    /\ UNCHANGED <<hub, mounted, debug, hist, tasks>>

StatMknod ==
    /\ CanAllocate(store)
    /\ \E name \in Names :
          ServeStat("mknod", <<ROOT_INODE, name>>,
                    TiFs_mknod(store, ROOT_INODE, name, "RegularFile"))

StatFallocate ==
    \E ino \in Files(store), length \in {1, BlockSize + 1} :
        ServeStat("fallocate", <<ino, length>>, TiFs_fallocate(store, ino, 0, length))

\* the statfs request of the mount
StatStatfs == ServeStat("statfs", <<>>, TiFs_statfs(store))

\* Txn::statfs in a transaction begun with Txn::begin_optimistic
StatTxnStatfs == ServeStat("Txn::statfs", <<>>, Txn_statfs(store, begin_optimistic(tasks)))

NextStat == StatMknod \/ StatFallocate \/ StatStatfs \/ StatTxnStatfs

SpecStat == InitStat /\ [][NextStat]_vars

----------------------------------------------------------------------------

(* SpecAtomic: requests whose closure fails after it has issued writes. The      *)
(* *_written operators give the transaction's buffered view of the store at the  *)
(* point where the closure returns; hist is the store before the last request,   *)
(* tasks the buffered view its closure left.                                     *)

make_inode_written(db, parent, name, kind) ==
    LET meta == IF read_meta(db).some THEN read_meta(db) ELSE Meta_new(BlockSize)
        r == make_inode(db, parent, name, kind)
        db1 == save_meta(db, [meta EXCEPT !.inode_next = @ + 1])
    IN IF r.ok THEN r.db
       ELSE IF r.err = "NoSpaceLeft" THEN db
       ELSE IF r.err = "FileExist" THEN db1
       ELSE set_index(db1, parent, name, meta.inode_next)

unlink_written(db, parent, name) ==
    LET r == unlink(db, parent, name)
        idx == get_index(db, parent, name)
        db1 == remove_index(db, parent, name)
        pd == read_dir(db1, parent)
    IN IF r.ok THEN r.db
       ELSE IF ~idx.some THEN db
       ELSE IF ~pd.ok THEN db1
       ELSE save_dir(db1, parent, DirWithout(pd.val, name)).db

rmdir_written(db, parent, name) ==
    LET r == rmdir(db, parent, name)
        idx == get_index(db, parent, name)
    IN IF r.ok THEN r.db
       ELSE IF ~idx.some \/ r.err = "DirNotEmpty" \/ ~read_dir(db, idx.ino).ok THEN db
       ELSE remove_inode(remove_index(db, parent, name), idx.ino)

link_written(db, ino, newparent, newname) ==
    LET r == link(db, ino, newparent, newname)
        idx == get_index(db, newparent, newname)
        old == IF idx.some THEN read_inode(db, idx.ino) ELSE Err("-")
        isdir == old.ok /\ old.val.kind = "Directory"
        rm == IF ~idx.some THEN Ok(db, 0)
              ELSE IF ~old.ok THEN old
              ELSE IF isdir THEN rmdir(db, newparent, newname)
              ELSE unlink(db, newparent, newname)
    IN IF r.ok THEN r.db
       ELSE IF idx.some /\ ~old.ok THEN db
       ELSE IF ~rm.ok THEN IF isdir THEN rmdir_written(db, newparent, newname)
                           ELSE unlink_written(db, newparent, newname)
       ELSE set_index(rm.db, newparent, newname, ino)

\* a rollback that lets the writes of the failed closure reach the store
rollback_keeps_writes(db, written) == written

\* Transaction::rollback: the buffered writes are dropped
rollback(db, written) == db

\* TiFs::with_pessimistic on a closure that returned r and left the writes `written`
with_pessimistic_written(db, r, written) ==
    IF r.ok THEN r.db ELSE rollback(db, written)

InitAtomic ==
    /\ store = with_pessimistic(EmptyStore, TiFs_init(EmptyStore))
    /\ hub = EmptyMap
    /\ mounted = TRUE
    /\ debug = FALSE
    /\ last = NoReply
    /\ hist = store
    /\ tasks = store
    /\ nops = 0

ServeAtomic(op, args, r, written) ==
    /\ nops < MaxOps
    /\ nops' = nops + 1
    /\ store' = with_pessimistic_written(store, r, written)
    /\ last' = [Reply(op, args, r) EXCEPT !.val = 0]
    /\ hist' = store
    /\ tasks' = written
    /\ UNCHANGED <<hub, mounted, debug>>

AtomicMknod ==
    /\ CanAllocate(store)
    /\ \E parent \in Dirs(store), name \in Names, kind \in {"RegularFile", "Directory"} :
          IF kind = "Directory"
          THEN ServeAtomic("mkdir", <<parent, name>>, mkdir(store, parent, name),
                           IF mkdir(store, parent, name).ok
                           THEN mkdir(store, parent, name).db
                           ELSE make_inode_written(store, parent, name, kind))
          ELSE ServeAtomic("mknod", <<parent, name>>,
                           TiFs_mknod(store, parent, name, kind),
                           make_inode_written(store, parent, name, kind))

\* Txn::link, Txn::unlink and Txn::rmdir in a transaction of with_pessimistic; the
\* inode id of a link request may be one that is no longer stored
AtomicLink ==
    \E ino \in 2 .. MaxIno, newparent \in Dirs(store), newname \in Names :
        ServeAtomic("Txn::link", <<ino, newparent, newname>>,
                    link(store, ino, newparent, newname),
                    link_written(store, ino, newparent, newname))

AtomicUnlink ==
    \E parent \in Dirs(store), name \in Names :
        IF EntryKind(store, parent, name) = "Directory"
        THEN ServeAtomic("Txn::rmdir", <<parent, name>>, rmdir(store, parent, name),
                         rmdir_written(store, parent, name))
        ELSE ServeAtomic("Txn::unlink", <<parent, name>>, unlink(store, parent, name),
                         unlink_written(store, parent, name))

NextAtomic == AtomicMknod \/ AtomicLink \/ AtomicUnlink

SpecAtomic == InitAtomic /\ [][NextAtomic]_vars

----------------------------------------------------------------------------

(* SpecWrite: two write requests on one regular file, each in a transaction of    *)
(* its own, from the same or from different mounts; the transactions may         *)
(* overlap. Writer w writes bytes of value w. hist is TRUE when the two          *)
(* transactions overlapped.                                                      *)

Writers == {1, 2}

WriteNotBegun == [pc |-> "idle", start |-> 0, len |-> 0, snap |-> EmptyStore,
                  ok |-> FALSE, err |-> "-"]

InitWrite ==
    /\ store = DataStore
    /\ hub = EmptyMap
    /\ mounted = TRUE
    /\ debug = FALSE
    /\ last = NoReply
    /\ hist = FALSE
    /\ tasks = [w \in Writers |-> WriteNotBegun]
    /\ nops = 0

\* TiFs::write_data begins its transaction
BeginWrite ==
    /\ \E w \in Writers, start \in {0, 1, BlockSize}, len \in {1, BlockSize} :
          /\ tasks[w].pc = "idle"
          /\ tasks' = [tasks EXCEPT ![w] = [WriteNotBegun EXCEPT !.pc = "run",
                                                                 !.start = start,
                                                                 !.len = len,
                                                                 !.snap = store]]
          /\ hist' = (hist \/ \E v \in Writers \ {w} : tasks[v].pc = "run")
    /\ UNCHANGED <<store, hub, mounted, debug, last, nops>>

\* the closure, Txn::write_data, has run on the snapshot and the transaction ends
EndWrite ==
    /\ \E w \in Writers :
          LET t == tasks[w]
              r == with_pessimistic_commit(
                       store, t.snap,
                       write_data(t.snap, DataFile, t.start, [i \in 1 .. t.len |-> w]))
          IN
          /\ t.pc = "run"
          /\ store' = with_pessimistic(store, r)
          /\ last' = [Reply("write", <<DataFile, t.start, t.len>>, r) EXCEPT !.val = 0]
          /\ tasks' = [tasks EXCEPT ![w] = [t EXCEPT !.pc = "done", !.ok = r.ok,
                                                     !.err = r.err,
                                                     !.snap = EmptyStore]]
    /\ UNCHANGED <<hub, mounted, debug, hist, nops>>

NextWrite == BeginWrite \/ EndWrite

SpecWrite == InitWrite /\ [][NextWrite]_vars

----------------------------------------------------------------------------

(* SpecAlloc: inode creations of several mounts on a store that starts empty:    *)
(* init (which makes the root), mknod, mkdir, symlink and create, each in a      *)
(* transaction of its own; the transactions may overlap. hist.ids lists the ids  *)
(* the successful creations returned, hist.next is Meta.inode_next before the    *)
(* last commit (0 while there is no Meta).                                       *)

AllocIdle == [pc |-> "idle", req |-> "none", name |-> "", snap |-> EmptyStore]

InitAlloc ==
    /\ store = EmptyStore
    /\ hub = EmptyMap
    /\ mounted = FALSE
    /\ debug = FALSE
    /\ last = NoReply
    /\ hist = [ids |-> <<>>, next |-> 0]
    /\ tasks = [m \in 1..MaxMounts |-> AllocIdle]
    /\ nops = 0

BeginAlloc ==
    /\ nops < MaxOps
    /\ nops' = nops + 1
    /\ \E m \in 1..MaxMounts, req \in {"init", "mknod", "mkdir", "symlink", "create"},
          name \in Names :
          /\ tasks[m].pc = "idle"
          /\ req /= "init" => mounted /\ CanAllocate(store)
          /\ tasks' = [tasks EXCEPT ![m] =
                          [pc |-> "run", req |-> req,
                           name |-> IF req = "init" THEN "" ELSE name, snap |-> store]]
    /\ UNCHANGED <<store, hub, mounted, debug, last, hist>>

\* the closure has run on the snapshot and the transaction ends; the id returned is
\* the one of the inode the closure made
EndAlloc ==
    /\ \E m \in 1..MaxMounts :
          LET t == tasks[m]
              r == IF t.req = "init" THEN TiFs_init(t.snap)
                   ELSE IF t.req = "mkdir" THEN TiFs_mkdir(t.snap, ROOT_INODE, t.name)
                   ELSE IF t.req = "symlink"
                   THEN TiFs_symlink(t.snap, ROOT_INODE, t.name, <<1>>)
                   ELSE TiFs_mknod(t.snap, ROOT_INODE, t.name, "RegularFile")
              res == with_pessimistic_commit(store, t.snap, r)
              made == IF r.ok THEN (DOMAIN r.db.inode) \ (DOMAIN t.snap.inode) ELSE {}
          IN
          /\ t.pc = "run"
          /\ store' = with_pessimistic(store, res)
          /\ mounted' = (mounted \/ (t.req = "init" /\ res.ok))
          /\ last' = [Reply(t.req, <<t.name>>, res) EXCEPT !.val = 0]
          /\ hist' = [ids |-> IF res.ok /\ made /= {}
                              THEN Append(hist.ids, CHOOSE i \in made : TRUE)
                              ELSE hist.ids,
                      next |-> IF store.meta.some THEN store.meta.inode_next ELSE 0]
          /\ tasks' = [tasks EXCEPT ![m] = AllocIdle]
    /\ UNCHANGED <<hub, debug, nops>>

NextAlloc == BeginAlloc \/ EndAlloc

SpecAlloc == InitAlloc /\ [][NextAlloc]_vars

----------------------------------------------------------------------------

(* Mount options (lib.rs). An option string is modelled as the sequence of its   *)
(* pieces: option names, '=' , ',' and "x", a text that is no option name; an    *)
(* option is [tag, val], val being the text a value-taking option or Unknown     *)
(* carries.                                                                      *)

\* define_options! MountOption: the builtin options and direct_io take no value
FlagOptions == {"dev", "nodev", "suid", "nosuid", "ro", "rw", "exec", "noexec",
                "dirsync", "direct_io"}
\* BlkSize(String), MaxSize(String), Tls(String)
ValueOptions == {"blksize", "maxsize", "tls"}

Unknown(fullopt) == [tag |-> "Unknown", val |-> fullopt]

\* the position of the first piece equal to c, 0 when there is none
Find(s, c) ==
    IF \E i \in 1..Len(s) : s[i] = c
    THEN CHOOSE i \in 1..Len(s) : s[i] = c /\ \A j \in 1..(i - 1) : s[j] /= c
    ELSE 0

\* str::split(c): the pieces between the occurrences of c, in order
RECURSIVE split(_, _)
split(s, c) ==
    LET i == Find(s, c) IN
    IF i = 0 THEN <<s>>
    ELSE <<SubSeq(s, 1, i - 1)>> \o split(SubSeq(s, i + 1, Len(s)), c)

\* impl FromStr for MountOption: [ok, opt]
from_str(fullopt) ==
    LET i == Find(fullopt, "=")
        optname == IF i = 0 THEN fullopt ELSE SubSeq(fullopt, 1, i - 1)
        optval_present == i /= 0
        optval == IF i = 0 THEN <<>> ELSE SubSeq(fullopt, i + 1, Len(fullopt))
        known == Len(optname) = 1 /\ optname[1] \in FlagOptions \cup ValueOptions
        optval_used == known /\ optname[1] \in ValueOptions
        parsed == IF ~known THEN Unknown(fullopt)
                  ELSE IF optval_used THEN [tag |-> optname[1], val |-> optval]
                  ELSE [tag |-> optname[1], val |-> <<>>]
    IN IF ~optval_used /\ optval_present THEN [ok |-> FALSE, opt |-> Unknown(<<>>)]
       ELSE IF optval_used /\ ~optval_present THEN [ok |-> FALSE, opt |-> Unknown(<<>>)]
       ELSE [ok |-> TRUE, opt |-> parsed]

\* impl From<T> for MountOption: what does not parse is Unknown(<the whole text>)
MountOption_from(v) ==
    IF from_str(v).ok THEN from_str(v).opt ELSE Unknown(v)

\* MountOption::to_vec on one argument: split at ',' and convert each piece
to_vec(arg) ==
    LET pieces == split(arg, ",") IN [i \in 1..Len(pieces) |-> MountOption_from(pieces[i])]

\* the option strings of at most n pieces
RECURSIVE OptionStrings(_)
OptionStrings(n) ==
    IF n = 0 THEN {<<>>}
    ELSE LET shorter == OptionStrings(n - 1)
         IN shorter \cup {Append(s, c) : s \in shorter,
                                         c \in {"dev", "direct_io", "blksize", "tls",
                                                "x", "=", ","}}

(* SpecOptions: the option argument of one mount command is parsed. tasks is the *)
(* argument, hist the options MountOption::to_vec returned.                      *)

InitOptions ==
    /\ store = EmptyStore
    /\ hub = EmptyMap
    /\ mounted = FALSE
    /\ debug = FALSE
    /\ last = NoReply
    /\ hist = <<>>
    /\ tasks \in OptionStrings(MaxOptLen)
    /\ nops = 0

ParseOptions ==
    /\ nops = 0
    /\ nops' = 1
    /\ hist' = to_vec(tasks)
    /\ last' = [NoReply EXCEPT !.op = "to_vec"]
    /\ UNCHANGED <<store, hub, mounted, debug, tasks>>

NextOptions == ParseOptions

SpecOptions == InitOptions /\ [][NextOptions]_vars

----------------------------------------------------------------------------

(* SpecMount: mounts that run init with their blksize option, mknod requests of  *)
(* mounted file systems and commands of the debugger console, each in one        *)
(* transaction; the transactions overlap, and a commit or a rollback can fail.   *)

\* a rollback after a commit that failed
terminal_calls_rollback_after_commit(r, failed) ==
    IF r.ok THEN IF failed THEN <<"commit", "rollback">> ELSE <<"commit">>
    ELSE <<"rollback">>

\* the calls TiFs::with_pessimistic and Console::interact make on the transaction
\* once the closure has returned r; failed: the call made returns an error
terminal_calls(r, failed) ==
    IF r.ok THEN <<"commit">> ELSE <<"rollback">>

NoRequest == [pc |-> "idle", req |-> "none", blksize |-> 0, name |-> "",
              snap |-> EmptyStore, ran |-> FALSE, ok |-> FALSE, err |-> "-",
              calls |-> <<>>]

InitMount ==
    /\ store = EmptyStore
    /\ hub = EmptyMap
    /\ mounted = FALSE
    /\ debug = FALSE
    /\ last = NoReply
    /\ hist = {}
    /\ tasks = [m \in 1..MaxMounts |-> NoRequest]
    /\ nops = 0

\* a transaction begins: init of a mount with blksize option b, mknod of name once
\* a mount is up, or a console command that reads ("get") or is not known
BeginRequest ==
    /\ \E m \in 1..MaxMounts, req \in {"init", "mknod", "get", "unknown"},
          b \in {BlockSize, 2 * BlockSize}, name \in Names :
          /\ tasks[m].pc = "idle"
          /\ req = "mknod" => mounted
          /\ tasks' = [tasks EXCEPT ![m] =
                          [NoRequest EXCEPT !.pc = "run", !.req = req,
                              !.blksize = IF req = "init" THEN b ELSE 0,
                              !.name = IF req = "mknod" THEN name ELSE "",
                              !.snap = store]]
    /\ UNCHANGED <<store, hub, mounted, debug, last, hist, nops>>

\* the closure has run on the snapshot and the transaction ends; fault: the commit
\* or rollback fails for a reason of its own
EndRequest ==
    /\ \E m \in 1..MaxMounts, fault \in BOOLEAN :
          LET t == tasks[m]
              r == IF t.req = "init" THEN TiFs_init(t.snap)
                   ELSE IF t.req = "mknod"
                   THEN TiFs_mknod(t.snap, ROOT_INODE, t.name, "RegularFile")
                   ELSE IF t.req = "get" THEN Ok(t.snap, 0)
                   ELSE Err("UnknownCommand")
              res == IF fault THEN Err("KeyError")
                     ELSE with_pessimistic_commit(store, t.snap, r)
          IN
          /\ t.pc = "run"
          /\ store' = with_pessimistic(store, res)
          /\ mounted' = (mounted \/ (t.req = "init" /\ res.ok))
          /\ last' = Reply(t.req, <<t.blksize, t.name>>, res)
          /\ tasks' = [tasks EXCEPT ![m] =
                          [t EXCEPT !.pc = "done", !.ran = r.ok, !.ok = res.ok,
                                    !.err = res.err, !.snap = EmptyStore,
                                    !.calls = terminal_calls(r, r.ok /\ ~res.ok)]]
    /\ UNCHANGED <<hub, debug, hist, nops>>

NextMount == BeginRequest \/ EndRequest

SpecMount == InitMount /\ [][NextMount]_vars

----------------------------------------------------------------------------
(* Claims checked under Spec *)

\* C1: for every Index entry (parent, name) -> ino, the Directory stored at
\* BLOCK(parent, 0) contains exactly one DirItem named `name`, and that DirItem's ino
\* is the Index value
C1_IndexMatchesDirectory ==
    \A k \in DOMAIN store.index :
        LET rd == read_dir(store, k[1]) IN
        /\ rd.ok
        /\ Cardinality({i \in 1..Len(rd.val) : rd.val[i].name = k[2]}) = 1
        /\ \A i \in 1..Len(rd.val) :
              rd.val[i].name = k[2] => rd.val[i].ino = store.index[k]

\* C6: a read or write through a handle that was open when the file's last name was
\* unlinked, and that has not been released, succeeds
C6_OpenHandleSurvivesUnlink ==
    (last.op \in {"read", "write"} /\ <<last.args[1], last.args[2]>> \in hist)
        => last.ok

\* C12: for every stored inode other than the root, nlink equals the number of
\* Index entries whose value is that inode's id
C12_NlinkCountsIndex ==
    \A i \in DOMAIN store.inode \ {ROOT_INODE} :
        store.inode[i].nlink =
            Cardinality({k \in DOMAIN store.index : store.index[k] = i})

\* C14: mkdir(parent, name) of a name absent from the parent, followed at once by
\* rmdir(parent, name), leaves the parent's Directory list (the same DirItems in
\* the same order) and the parent's Index entries as they were before the mkdir
C14_MkdirRmdirRestoresParent ==
    (last.op \in {"rmdir", "Txn::rmdir"} /\ last.ok /\ tasks.st = "removed")
        => /\ read_dir(store, last.args[1]).ok
           /\ read_dir(store, last.args[1]).val = tasks.dir
           /\ ParentIndex(store, last.args[1]) = tasks.index


----------------------------------------------------------------------------
(* Claims checked under SpecNames *)

----------------------------------------------------------------------------
(* Claims checked under SpecTxn *)

C5_NoOrphan ==
    \A i \in DOMAIN store.inode :
        ~(store.inode[i].nlink = 0 /\ store.inode[i].opened_fh = 0)

\* a stored inode with nlink = 0 and an open handle leaves the store only by a
\* successful Txn::close of its last handle
C5_StaysUntilLastClose ==
    \A i \in DOMAIN store.inode :
        (/\ store.inode[i].nlink = 0
         /\ store.inode[i].opened_fh > 0
         /\ i \notin DOMAIN store'.inode)
        => /\ last'.op = "Txn::close" /\ last'.ok /\ last'.args[1] = i
           /\ store.inode[i].opened_fh = 1

\* C5: no committed state holds an Inode with nlink = 0 and opened_fh = 0 (unlink
\* with no handle open, and the close of the last handle of an inode with nlink = 0,
\* remove the INODE key in the same transaction), and an inode with nlink = 0 and
\* opened_fh > 0 stays stored until its last close
C5_OrphanRemovedAtLastClose == []C5_NoOrphan /\ [][C5_StaysUntilLastClose]_vars

\* the last handle of a file without a name was closed and the inode is gone
C5_Witness ==
    /\ last.op = "Txn::close" /\ last.ok
    /\ last.args[1] \notin DOMAIN store.inode
    /\ \A k \in DOMAIN store.handler : k[1] /= last.args[1]

\* C16: whenever Meta.last_stat is present with bavail = 0, write_data (reached
\* through Txn::write) and make_inode return NoSpaceLeft and change no inode, block
\* or Meta value; when last_stat is absent or has bavail > 0 they never return
\* NoSpaceLeft
C16_SpaceCheck ==
    [][(/\ nops' = nops + 1
        /\ last'.op \in {"Txn::write", "Txn::make_inode", "Txn::mkdir"}
        /\ last'.op = "Txn::write" => <<last'.args[1], last'.args[2]>>
                                          \in DOMAIN store.handler)
          => IF store.meta.last_stat.some /\ store.meta.last_stat.bavail = 0
             THEN /\ last'.err = "NoSpaceLeft"
                  /\ store'.inode = store.inode
                  /\ store'.block = store.block
                  /\ store'.meta = store.meta
             ELSE last'.err /= "NoSpaceLeft"]_vars

\* a write has been refused with NoSpaceLeft after statfs found no block available
C16_Witness ==
    /\ last.op = "Txn::write" /\ last.err = "NoSpaceLeft"
    /\ store.meta.last_stat.some /\ store.meta.last_stat.bavail = 0

\* C17: with a configured maxsize, the number of used blocks (the sum of `blocks`
\* over all stored inodes) never exceeds max_blocks
C17_UsedBlocksWithinMax ==
    SumBlocks(store, DOMAIN store.inode) <= max_blocks

----------------------------------------------------------------------------
(* Claims checked under SpecData *)

\* the whole file as read_data returns it from position start on
ReadFrom(start) == read_data(store, DataFile, start, [some |-> FALSE, size |-> 0])

C2_ReadsBackWrite ==
    (last.op = "write" /\ last.ok) =>
        LET r == read_data(store, DataFile, last.args[1],
                           [some |-> TRUE, size |-> Len(last.args[2])])
        IN r.ok /\ r.val = last.args[2]

C2_GapsReadZero ==
    \A start \in 0 .. (store.inode[DataFile].size - 1) :
        LET r == ReadFrom(start) IN
        /\ r.ok
        /\ \A p \in start .. (store.inode[DataFile].size - 1) :
              p \notin hist.covered => (p - start + 1 \in DOMAIN r.val /\ r.val[p - start + 1] = 0)

\* C2: after any sequence of writes and fallocates, a read of the range a successful
\* write has just covered returns exactly the written data, and every byte position
\* below the file size that no write has ever covered reads as zero
C2_WriteThenRead ==
    hist.kinds \subseteq {"write", "fallocate", "read"} =>
        (C2_ReadsBackWrite /\ C2_GapsReadZero)

\* C3: every committed Inode satisfies blocks = ceil(size / block_size)
C3_BlocksMatchSize ==
    \A i \in DOMAIN store.inode :
        store.inode[i].blocks = (store.inode[i].size + BlockSize - 1) \div BlockSize

\* C4: after any sequence of write, fallocate and setattr, every committed regular
\* file Inode whose inline_data is present has len(inline_data) = size and
\* size <= block_size / 16
C4_InlineWithinThreshold ==
    hist.kinds \subseteq {"write", "fallocate", "setattr", "read"} =>
        \A i \in DOMAIN store.inode :
            (store.inode[i].kind = "RegularFile" /\ store.inode[i].inline_data.some) =>
                /\ Len(store.inode[i].inline_data.data) = store.inode[i].size
                /\ store.inode[i].size <= BlockSize \div INLINE_DATA_THRESHOLD_BASE

\* C15 as stated, with block size B: on an empty regular file, after writing the 5
\* bytes "ABCDE" at offset B - 2, read(offset B - 6, size 10) returns the 10 bytes
\* 00 00 00 00 'A' 'B' 'C' 'D' 'E' 00, the file size is B + 3 and blocks is 2
C15_ReadsTenBytes ==
    (/\ nops = 2 /\ last.op = "read" /\ last.args = <<BlockSize - 6, 10>>
     /\ hist.covered = (BlockSize - 2) .. (BlockSize + 2))
        => /\ last.ok
           /\ last.val = <<0, 0, 0, 0>> \o ABCDE \o <<0>>
           /\ store.inode[DataFile].size = BlockSize + 3
           /\ store.inode[DataFile].blocks = 2

\* C15: with block size B, on an empty regular file, after writing the 5 bytes
\* "ABCDE" at offset B - 2, read(offset B - 6, size 10) stops at the end of the file
\* and returns the 9 bytes 00 00 00 00 'A' 'B' 'C' 'D' 'E'; the file size is B + 3
\* and blocks is 2
C15_ReadStopsAtEndOfFile ==
    (/\ nops = 2 /\ last.op = "read" /\ last.args = <<BlockSize - 6, 10>>
     /\ hist.covered = (BlockSize - 2) .. (BlockSize + 2))
        => /\ last.ok
           /\ last.val = <<0, 0, 0, 0>> \o ABCDE
           /\ store.inode[DataFile].size = BlockSize + 3
           /\ store.inode[DataFile].blocks = 2

\* "ABCDE" has been written across the block boundary of the empty file and the
\* ten bytes around it have been read
C15_Witness ==
    /\ nops = 2 /\ last.op = "read" /\ last.ok /\ last.args = <<BlockSize - 6, 10>>
    /\ hist.covered = (BlockSize - 2) .. (BlockSize + 2)
    /\ Len(last.val) > 0

----------------------------------------------------------------------------
(* Claims checked under SpecLock *)

\* C8: setlk never reports success for WRLCK to an owner while a different owner
\* holds a lock it has not released, and never reports success for RDLCK to an owner
\* while a different owner holds WRLCK
C8_NoConflictingGrant ==
    (last.op = "setlk" /\ last.ok /\ last.args[1] = DataFile) =>
        \A b \in Owners \ {last.args[2]} :
            /\ last.args[3] = F_WRLCK => hist.held[b] = F_UNLCK
            /\ last.args[3] = F_RDLCK => hist.held[b] /= F_WRLCK

\* WRLCK granted through the setlkw loop after another owner released its lock
C8_Witness ==
    /\ last.op = "setlk" /\ last.ok /\ last.args[3] = F_WRLCK /\ last.val
    /\ hist.released \ {last.args[2]} /= {}

\* C9: each inode's lock_state is Unlocked (no owner, UNLCK), Read (at least one
\* owner, RDLCK) or Write (exactly one owner, WRLCK)
C9_LockStateShape ==
    \A i \in DOMAIN store.inode :
        LET inode == store.inode[i] IN
        \/ inode.owner_set = {} /\ inode.lk_type = F_UNLCK
        \/ inode.owner_set /= {} /\ inode.lk_type = F_RDLCK
        \/ Cardinality(inode.owner_set) = 1 /\ inode.lk_type = F_WRLCK

\* the lock state is Unlocked again after two owners have held and released locks
C9_Witness ==
    /\ store.inode[DataFile].owner_set = {} /\ store.inode[DataFile].lk_type = F_UNLCK
    /\ Cardinality(hist.released) >= 2
    /\ last.op = "setlk" /\ last.ok /\ last.args[3] = F_UNLCK

\* C10: a setlk request with sleep = true on a file on which a different owner holds
\* a lock does not return an error
C10_SleepingRequestNeverFails ==
    (/\ last.op = "setlk" /\ last.args[1] = DataFile /\ last.args[4]
     /\ \E b \in Owners \ {last.args[2]} : hist.held[b] /= F_UNLCK)
        => last.ok

\* the request <<ino, lock_owner, typ, sleep>> meets a lock that setlk has granted
\* to a different owner and that this owner has not released
Conflicts(h, args) ==
    /\ args[1] = DataFile
    /\ \E b \in Owners \ {args[2]} :
          \/ h.held[b] = F_WRLCK /\ args[3] \in {F_RDLCK, F_WRLCK}
          \/ h.held[b] = F_RDLCK /\ args[3] = F_WRLCK

\* C11: a setlk request with sleep = false that conflicts with a lock held by a
\* different owner (RDLCK or WRLCK while another owner holds WRLCK, WRLCK while
\* another owner holds RDLCK) returns InvalidLock and leaves the inode's owner_set
\* and lk_type as they were
C11_ConflictRejected ==
    [][(/\ nops' = nops + 1 /\ tasks' = tasks
        /\ last'.op = "setlk" /\ ~last'.args[4]
        /\ Conflicts(hist, last'.args))
          => /\ last'.err = "InvalidLock"
             /\ store'.inode[DataFile].owner_set = store.inode[DataFile].owner_set
             /\ store'.inode[DataFile].lk_type = store.inode[DataFile].lk_type]_vars

\* the last reply refuses WRLCK, asked without sleeping, against another owner's
\* lock, and the inode still carries that owner's lock
C11_Witness ==
    /\ last.op = "setlk" /\ ~last.args[4] /\ last.err = "InvalidLock"
    /\ last.args[3] = F_WRLCK
    /\ Conflicts(hist, last.args)
    /\ store.inode[DataFile].owner_set /= {}
    /\ last.args[2] \notin store.inode[DataFile].owner_set

----------------------------------------------------------------------------
(* Claims checked under SpecCreate *)

\* the requests for the name shared by all creators, when they all asked for one name
SameName == \A c \in Creators : tasks[c].name = tasks[1].name

\* C7: when all of N >= 2 mknod/create requests for one initially absent
\* (parent, name) have returned, exactly one has succeeded, every other one has
\* returned FileExist, and exactly one Index entry and one DirItem exist for the name
C7_ExactlyOneCreateWins ==
    ((\A c \in Creators : tasks[c].pc = "done") /\ SameName) =>
        /\ Cardinality({c \in Creators : tasks[c].ok}) = 1
        /\ \A c \in Creators : ~tasks[c].ok => tasks[c].err = "FileExist"
        /\ <<ROOT_INODE, tasks[1].name>> \in DOMAIN store.index
        /\ LET dir == read_dir(store, ROOT_INODE).val
           IN Cardinality({i \in 1..Len(dir) : dir[i].name = tasks[1].name}) = 1

----------------------------------------------------------------------------
(* Claims checked under SpecMount *)

\* C18: init on a store whose Meta already exists with a block_size different from
\* the mount's configured block size fails with BlockSizeConflict and changes
\* nothing in the store
C18_BlockSizeConflict ==
    [][\A m \in 1..MaxMounts :
          (/\ tasks[m].pc = "run" /\ tasks'[m].pc = "done" /\ tasks[m].req = "init"
           /\ tasks[m].snap.meta.some
           /\ tasks[m].snap.meta.block_size /= tasks[m].blksize)
             => (tasks'[m].err = "BlockSizeConflict" /\ store' = store)]_vars

\* C19, the state after init: once an init has returned successfully, META exists,
\* INODE(1) exists and is a Directory, and BLOCK(1,0) decodes to a directory
C19_Initialized ==
    (\E m \in 1..MaxMounts : tasks[m].req = "init" /\ tasks[m].ok)
        => /\ store.meta.some
           /\ ROOT_INODE \in DOMAIN store.inode
           /\ store.inode[ROOT_INODE].kind = "Directory"
           /\ read_dir(store, ROOT_INODE).ok

\* C19, the steps of init: the first init leaves an empty root directory, and an
\* init that ends on a store that is already initialized changes no key
C19_InitOnce ==
    \A m \in 1..MaxMounts :
        (tasks[m].pc = "run" /\ tasks'[m].pc = "done" /\ tasks[m].req = "init")
            => /\ (~store.meta.some /\ tasks'[m].ok)
                     => read_dir(store', ROOT_INODE).val = <<>>
               /\ store.meta.some => store' = store

\* C19: after init returns successfully, META exists, INODE(1) exists and is a
\* Directory and BLOCK(1,0) decodes to a directory, empty right after the first
\* init; init on a store that is already initialized, also by a mount whose init
\* overlaps another's, changes no key
C19_InitIdempotent == []C19_Initialized /\ [][C19_InitOnce]_vars

\* every request was an init: one made the root, and the init that ended last
\* had made a root of its own on the empty store and lost its commit
C19_Witness ==
    /\ \A m \in 1..MaxMounts : tasks[m].req = "init" /\ tasks[m].pc = "done"
    /\ \E m \in 1..MaxMounts : tasks[m].ok
    /\ last.op = "init" /\ last.err = "KeyError"
    /\ store.meta.inode_next = ROOT_INODE + 1

----------------------------------------------------------------------------
(* Claims checked under Spec, on link and rmdir *)

\* C26: link(ino, newparent, newname) onto a name that exists in newparent replaces
\* it: the old target is removed first (unlink of a non-directory, rmdir of a
\* directory, which fails with DirNotEmpty when it has entries), and afterwards
\* (newparent, newname) resolves to ino, newparent's Directory holds exactly one
\* DirItem for newname, and ino's nlink is one higher than before
C26_LinkReplaces ==
    [][(/\ nops' = nops + 1
        /\ last'.op \in {"link", "Txn::link"}
        /\ EntryKind(store, last'.args[2], last'.args[3]) /= "none"
        /\ DirFind(read_dir(store, last'.args[2]).val, last'.args[3]).ino
              /= last'.args[1])
          => LET ino == last'.args[1]
                 newparent == last'.args[2]
                 newname == last'.args[3]
                 old == DirFind(read_dir(store, newparent).val, newname)
                 dir == read_dir(store', newparent).val
             IN IF old.typ = "Directory" /\ read_dir(store, old.ino).val /= <<>>
                THEN ~last'.ok /\ last'.err = "DirNotEmpty"
                ELSE /\ last'.ok
                     /\ TiFs_lookup(store', newparent, newname).ok
                     /\ TiFs_lookup(store', newparent, newname).val.ino = ino
                     /\ Cardinality({i \in 1 .. Len(dir) : dir[i].name = newname}) = 1
                     /\ store'.inode[ino].nlink = store.inode[ino].nlink + 1]_vars

\* C27: rmdir(parent, name) on a directory that contains at least one entry returns
\* DirNotEmpty and leaves the parent's Directory, the Index and the target inode
\* unchanged; on an empty directory it removes the Index entry, the DirItem in the
\* parent and the target inode, and on an absent name it returns FileNotFound
C27_RmdirOnlyEmpty ==
    [][(/\ nops' = nops + 1
        /\ last'.op \in {"rmdir", "Txn::rmdir"}
        /\ EntryKind(store, last'.args[1], last'.args[2]) \in {"Directory", "none"})
          => LET parent == last'.args[1]
                 name == last'.args[2]
                 kind == EntryKind(store, parent, name)
                 ino == DirFind(read_dir(store, parent).val, name).ino
             IN IF kind = "none"
                THEN ~last'.ok /\ last'.err = "FileNotFound"
                ELSE IF read_dir(store, ino).val /= <<>>
                THEN /\ ~last'.ok /\ last'.err = "DirNotEmpty"
                     /\ read_dir(store', parent) = read_dir(store, parent)
                     /\ store'.index = store.index
                     /\ store'.inode[ino] = store.inode[ino]
                ELSE /\ last'.ok
                     /\ <<parent, name>> \notin DOMAIN store'.index
                     /\ name \notin DirNames(read_dir(store', parent).val)
                     /\ ino \notin DOMAIN store'.inode]_vars

----------------------------------------------------------------------------
(* Retry of conflicting transactions, checked under SpecCreate *)

\* C21: a transaction that fails at commit with a conflict (KeyError) is rolled back
\* and its closure re-run until a commit succeeds, so no request returns KeyError to
\* its caller and the effects of every request are applied exactly once
C21_ConflictNeverReturned ==
    \A c \in Creators :
        tasks[c].pc = "done" =>
            /\ tasks[c].err /= "KeyError"
            /\ <<ROOT_INODE, tasks[c].name>> \in DOMAIN store.index

----------------------------------------------------------------------------
(* Claims checked under SpecHandle *)

\* C22: the open reply carries the FOPEN_DIRECT_IO flag when the mount option
\* direct_io is set or the caller's open flags contain O_DIRECT, and does not carry
\* it when neither holds
C22_DirectIoFlag ==
    last.op = "open" =>
        ("FOPEN_DIRECT_IO" \in last.val.flags
            <=> (tasks.direct_io \/ "O_DIRECT" \in last.args[2]))

----------------------------------------------------------------------------
(* Claims checked under Spec, on names *)

\* C23: lookup(parent, name) with a name longer than MAX_NAME_LEN (256) returns
\* NameTooLong, and with a name of at most MAX_NAME_LEN bytes it never returns
\* NameTooLong: it returns the entry of the resolved inode, or FileNotFound when the
\* name is absent
C23_LookupNameTooLong ==
    last.op = "lookup" =>
        IF Len(last.args[2]) > MAX_NAME_LEN
        THEN ~last.ok /\ last.err = "NameTooLong"
        ELSE last.err /= "NameTooLong"

----------------------------------------------------------------------------
(* Claims checked under SpecData, on sparse files *)

\* C24: for every inode size, every set of materialized blocks and every
\* (start, size), read_data returns exactly min(size, inode.size - start) bytes
\* (none when start >= inode.size), and its i-th byte is the stored byte at position
\* start + i when the block of that position is materialized, and zero otherwise
C24_ReadDataSparse ==
    LET inode == store.inode[DataFile]
        StoredByte(p) ==
            LET blk == get_block(store, DataFile, p \div BlockSize)
            IN IF blk.some /\ (p % BlockSize) < Len(blk.bytes)
               THEN blk.bytes[(p % BlockSize) + 1] ELSE 0
    IN
    ~inode.inline_data.some =>
        \A start \in 0 .. inode.size, size \in {1, BlockSize + 1, 3 * BlockSize} :
            LET r == read_data(store, DataFile, start, [some |-> TRUE, size |-> size])
                n == IF start >= inode.size THEN 0 ELSE Min(size, inode.size - start)
            IN /\ r.ok
               /\ Len(r.val) = n
               /\ \A i \in 0 .. (n - 1) : r.val[i + 1] = StoredByte(start + i)

----------------------------------------------------------------------------
(* Claims checked under SpecLock, on the owner of a write lock *)

\* C25: while owner A holds WRLCK on an inode, a further setlk(RDLCK) or
\* setlk(WRLCK) by A, with sleep true or false, returns success and leaves the lock
\* state WRLCK held by exactly {A}; it does not fail with InvalidLock
C25_WriteOwnerRelocks ==
    [][\A o \in Owners :
          (/\ store.inode[DataFile].lk_type = F_WRLCK
           /\ store.inode[DataFile].owner_set = {o}
           /\ \/ (nops' /= nops /\ tasks' = tasks)
              \/ (tasks[o].pc = "wait" /\ tasks'[o].pc = "idle")
           /\ last'.op = "setlk"
           /\ last'.args[1] = DataFile /\ last'.args[2] = o
           /\ last'.args[3] \in {F_RDLCK, F_WRLCK})
             => /\ last'.ok
                /\ store'.inode[DataFile].lk_type = F_WRLCK
                /\ store'.inode[DataFile].owner_set = {o}]_vars

\* C28: in every committed state and for every stored inode, opened_fh equals the
\* number of live file handles of that inode, every live fh is smaller than next_fh,
\* and open never returns an fh value it has returned before for the same inode
C28_HandlesCounted ==
    /\ \A ino \in DOMAIN store.inode :
          LET live == {fh \in 0 .. MaxFh :
                          \/ <<ino, fh>> \in DOMAIN store.handler
                          \/ <<ino, fh>> \in HubHandles(hub)}
          IN /\ store.inode[ino].opened_fh = Cardinality(live)
             /\ \A fh \in live : fh < store.inode[ino].next_fh
    /\ \A i, j \in 1 .. Len(hist) : i /= j => hist[i] /= hist[j]

----------------------------------------------------------------------------
(* Claims checked under SpecDir *)

\* C30, the replies: every readdir call of a listing returns the entries that the
\* first call of the listing returned, in the same order, from position offset on
C30_SameOrder ==
    (hist.st = "going" /\ hist' /= hist) =>
        [i \in 1 .. Len(last'.val) |-> last'.val[i].name]
            = SubSeq(hist.first, hist.next + 1, Len(hist.first))

\* C30, the listing: once a listing has reached the end, it has seen ".", ".." and
\* every entry of the directory exactly once
C30_EachOnce ==
    hist.st = "done" =>
        LET names == {"..", "."} \cup DirNames(read_dir(store, ROOT_INODE).val)
        IN /\ Len(hist.seen) = Cardinality(names)
           /\ {hist.seen[i] : i \in 1 .. Len(hist.seen)} = names

\* C30: for a directory that is not modified between calls, readdir(ino, offset)
\* returns the directory's entries in the same order on every call, starting at
\* position offset; following the offsets attached to the returned entries,
\* starting from 0, enumerates every entry exactly once
C30_ReaddirStable == [][C30_SameOrder]_vars /\ []C30_EachOnce

----------------------------------------------------------------------------
(* Claims checked under SpecAttr *)

\* C31: setattr changes only the attributes for which a value is provided: each of
\* perm, uid, gid, size, atime, mtime, ctime, crtime and flags whose argument is
\* absent keeps its previous value, and nlink, lock_state, next_fh and opened_fh are
\* never changed by setattr
C31_SetattrFrame ==
    [][(last'.op = "setattr" /\ last'.ok /\ nops' = nops + 1) =>
          LET S == last'.args[2]
              old == store.inode[DataFile]
              new == store'.inode[DataFile]
          IN /\ "mode" \notin S => tasks'.perm = tasks.perm
             /\ "uid" \notin S => tasks'.uid = tasks.uid
             /\ "gid" \notin S => tasks'.gid = tasks.gid
             /\ "size" \notin S => new.size = old.size
             /\ "atime" \notin S => tasks'.atime = tasks.atime
             /\ "mtime" \notin S => tasks'.mtime = tasks.mtime
             /\ "ctime" \notin S => tasks'.ctime = tasks.ctime
             /\ "crtime" \notin S => tasks'.crtime = tasks.crtime
             /\ "flags" \notin S => tasks'.flags = tasks.flags
             /\ new.nlink = old.nlink
             /\ new.owner_set = old.owner_set /\ new.lk_type = old.lk_type
             /\ new.next_fh = old.next_fh /\ new.opened_fh = old.opened_fh]_vars

----------------------------------------------------------------------------
(* Claims checked under SpecStat *)

\* the number of blocks of all stored inodes
UsedBlocks(db) == SumBlocks(db, DOMAIN db.inode)

\* C32: statfs reports files = the number of stored inodes and used = the sum of
\* their blocks; blocks = max_blocks when a maxsize is configured, else used;
\* bfree = bavail = max_blocks - used when max_blocks > used, 0 when used >=
\* max_blocks, and u64::MAX when unbounded; ffree = u64::MAX - inode_next; and it
\* stores exactly the returned value as Meta.last_stat
C32_StatfsFields ==
    (last.op \in {"statfs", "Txn::statfs"} /\ last.ok) =>
        LET stat == last.val
            used == UsedBlocks(store)
            mb == begin_optimistic(tasks)
        IN /\ stat.files = Cardinality(DOMAIN store.inode)
           /\ stat.blocks = IF mb.some THEN mb.v ELSE used
           /\ stat.bfree = stat.bavail
           /\ stat.bfree >= 0
           /\ stat.bfree = IF ~mb.some THEN U64_MAX
                           ELSE IF mb.v > used THEN mb.v - used ELSE 0
           /\ stat.ffree = U64_MAX - store.meta.inode_next
           /\ store.meta.last_stat = stat

----------------------------------------------------------------------------
(* Claims checked under Spec, on the Index of directory entries *)

\* C33: every DirItem {ino, name} in the Directory of a directory `parent` has an
\* Index entry (parent, name) whose value is that same ino
C33_DirectoryMatchesIndex ==
    \A parent \in Dirs(store) :
        LET rd == read_dir(store, parent) IN
        rd.ok => \A i \in 1..Len(rd.val) :
                    /\ <<parent, rd.val[i].name>> \in DOMAIN store.index
                    /\ store.index[<<parent, rd.val[i].name>>] = rd.val[i].ino

----------------------------------------------------------------------------
(* Claims checked under SpecAtomic *)

----------------------------------------------------------------------------
(* Claims checked under SpecWrite *)

\* the last writer of position p (counted from 0), 0 when no writer covers p
WrittenBy(p) ==
    LET covers(w) == tasks[w].start <= p /\ p < tasks[w].start + tasks[w].len
    IN IF covers(1) /\ covers(2) THEN 3
       ELSE IF covers(1) THEN 1
       ELSE IF covers(2) THEN 2
       ELSE 0

\* C35: two write operations on the same inode that run concurrently in separate
\* transactions both take effect: both return success, the inode's size is the
\* maximum of its old size and the two end offsets, and every byte written by
\* either operation that the other did not overwrite reads back as written
C35_ConcurrentWrites ==
    (hist /\ \A w \in Writers : tasks[w].pc = "done") =>
        LET size == Max(tasks[1].start + tasks[1].len, tasks[2].start + tasks[2].len)
            rd == read_data(store, DataFile, 0, [some |-> FALSE, size |-> 0])
        IN /\ \A w \in Writers : tasks[w].ok
           /\ store.inode[DataFile].size = size
           /\ rd.ok /\ Len(rd.val) = size
           /\ \A p \in 0 .. size - 1 :
                 WrittenBy(p) \in Writers => rd.val[p + 1] = WrittenBy(p)

----------------------------------------------------------------------------
(* Claims checked under SpecAlloc *)

\* C36: Meta.inode_next never decreases and is strictly greater than the id of
\* every stored inode; every successful inode creation, including creations that
\* run concurrently, returns an id that no other creation has returned, and the
\* first creation on an empty store returns id 1 (the root)
C36_InodeIds ==
    /\ store.meta.some => store.meta.inode_next >= hist.next
    /\ \A i \in DOMAIN store.inode : store.meta.some /\ i < store.meta.inode_next
    /\ \A i, j \in 1 .. Len(hist.ids) : i /= j => hist.ids[i] /= hist.ids[j]
    /\ hist.ids /= <<>> => hist.ids[1] = 1

\* three creations have returned their ids, and a creation whose transaction
\* overlapped another one's has just returned
C36_Witness ==
    /\ Len(hist.ids) >= 3
    /\ last.op \in {"mknod", "mkdir", "symlink", "create"}
    /\ last.err = "KeyError"

----------------------------------------------------------------------------
(* Claims checked under SpecData, on truncation *)

\* C37: after setattr shrinks a file's size to n and a later write, fallocate or
\* setattr grows the size again, every byte in [n, new size) that was not written
\* after the shrink reads as zero
C37_CutBytesStayZero ==
    hist.kinds \subseteq {"write", "fallocate", "setattr", "read"} =>
        LET r == ReadFrom(0) IN
        \A p \in hist.cut :
            p < store.inode[DataFile].size =>
                (r.ok /\ p + 1 \in DOMAIN r.val /\ r.val[p + 1] = 0)

----------------------------------------------------------------------------
(* Claims checked under SpecTxn, on the keys of removed inodes *)

\* C38: whenever an inode's INODE key is removed, no BLOCK(ino, *) key and no
\* HANDLER(ino, *) key of that inode remains in the store
C38_NoKeysOfRemovedInode ==
    /\ \A k \in DOMAIN store.block : k[1] \in DOMAIN store.inode
    /\ \A k \in DOMAIN store.handler : k[1] \in DOMAIN store.inode

----------------------------------------------------------------------------
(* Claims checked under Spec, on the directory tree *)

\* the inodes reached from S by following Index entries of stored directories, at
\* most depth levels down
RECURSIVE ReachIndex(_, _, _)
ReachIndex(db, S, depth) ==
    IF depth = 0 THEN S
    ELSE ReachIndex(db,
                    S \cup {db.index[k] : k \in {x \in DOMAIN db.index :
                                                    x[1] \in S \cap Dirs(db)}},
                    depth - 1)

\* C39: every stored directory inode is reachable from the root by following Index
\* entries
C39_DirectoriesReachable ==
    mounted => Dirs(store) \subseteq ReachIndex(store, {ROOT_INODE}, MaxIno)

----------------------------------------------------------------------------
(* Claims checked under SpecOptions *)

\* what the claim says one option string parses to
C40_Expected(piece) ==
    LET i == Find(piece, "=")
        name == IF i = 0 THEN piece ELSE SubSeq(piece, 1, i - 1)
        value == IF i = 0 THEN <<>> ELSE SubSeq(piece, i + 1, Len(piece))
    IN IF Len(name) /= 1 THEN Unknown(piece)
       ELSE IF name[1] \in FlagOptions
       THEN IF i = 0 THEN [tag |-> name[1], val |-> <<>>] ELSE Unknown(piece)
       ELSE IF name[1] = "blksize"
       THEN IF i = 0 \/ value = <<>> THEN Unknown(piece)
            ELSE [tag |-> "blksize", val |-> value]
       ELSE IF name[1] = "tls"
       THEN IF i = 0 THEN Unknown(piece) ELSE [tag |-> "tls", val |-> value]
       ELSE Unknown(piece)

\* C40: a flag-only option followed by '=' and any value parses as Unknown(<the
\* full string>); a value-taking option given without '=' parses as Unknown;
\* 'blksize=' with an empty value parses as Unknown("blksize=") while 'tls='
\* parses as Tls(""); an unrecognised name passes through as Unknown(<full
\* string>); and a comma-separated list yields its options in order
C40_OptionParsing ==
    last.op = "to_vec" =>
        LET pieces == split(tasks, ",") IN
        /\ Len(hist) = Len(pieces)
        /\ \A i \in 1..Len(pieces) : hist[i] = C40_Expected(pieces[i])

====
